---- MODULE Spec2Model ----
(***************************************************************************)
(* Attribution Pro: the quantitative core (Modified Dietz, cashflow        *)
(* weights, ACT/365 annualization, Brinson-Fachler attribution).           *)
(*                                                                         *)
(* Numbers.  A JavaScript number is modelled as a record                   *)
(*     [k |-> "fin" | "nan" | "inf", n |-> numerator, d |-> denominator]   *)
(* "fin" is the exact rational n/d in lowest terms with d > 0; "inf" is    *)
(* +Infinity (n = 1) or -Infinity (n = -1).  Arithmetic is exact: the      *)
(* rounding of IEEE doubles is not modelled, the propagation of NaN and    *)
(* of the infinities is.  The one exception is the sum 1 + r of annualize, *)
(* where a return below 2^-53 (the number Tiny) is lost to rounding.       *)
(*                                                                         *)
(* Units.  Money is counted in units of 5e-13, so that EPS (1e-12 in the   *)
(* source) is 2 units.  Time is counted in ticks of 6 hours, so that       *)
(* msPerDay (86 400 000 ms in the source) is 4 ticks.                      *)
(***************************************************************************)
EXTENDS Integers, Sequences, FiniteSets, TLC

VARIABLES fn, args, ret, pc,
          attempt,    \* callClaude, callGemini: the loop index i
          requests,   \* the number of requests issued by fetch so far
          waits,      \* the delays of the timers set so far, in milliseconds
          response,   \* the last response to come back
          performanceResults,  \* the store's field of that name
          edits       \* PerformancePage: the inputs it has rendered since the
                      \* store was created or reset, oldest first

aiVars == <<attempt, requests, waits, response>>

storeVars == <<performanceResults, edits>>

vars == <<fn, args, ret, pc, attempt, requests, waits, response,
          performanceResults, edits>>

-----------------------------------------------------------------------------
(* JavaScript numbers *)

AbsInt(i) == IF i < 0 THEN -i ELSE i

RECURSIVE GCD(_, _)
GCD(a, b) == IF b = 0 THEN a ELSE GCD(b, a % b)

NaN == [k |-> "nan", n |-> 0, d |-> 1]
PosInf == [k |-> "inf", n |-> 1, d |-> 1]
NegInf == [k |-> "inf", n |-> -1, d |-> 1]

\* the rational n/d (d # 0) in lowest terms, sign carried by the numerator
Rat(n, d) ==
  LET g == GCD(AbsInt(n), AbsInt(d))
      s == IF d < 0 THEN -1 ELSE 1
  IN [k |-> "fin", n |-> (s * n) \div g, d |-> (s * d) \div g]

Fin(i) == [k |-> "fin", n |-> i, d |-> 1]

Zero == Fin(0)
One == Fin(1)

\* a positive double smaller than 2^-53 (2^-60, say): finite, but beyond the
\* rationals above; it occurs only as a period return given to annualize
Tiny == [k |-> "tiny", n |-> 1, d |-> 1]

\* Number.isFinite
IsFinite(x) == x.k \in {"fin", "tiny"}

Sign(x) == IF x.n > 0 THEN 1 ELSE IF x.n < 0 THEN -1 ELSE 0

Inf(s) == IF s > 0 THEN PosInf ELSE NegInf

Neg(x) == [x EXCEPT !.n = -x.n]

\* x + y
Add(x, y) ==
  IF x.k = "nan" \/ y.k = "nan" THEN NaN
  ELSE IF x.k = "inf" /\ y.k = "inf" THEN (IF x.n = y.n THEN x ELSE NaN)
  ELSE IF x.k = "inf" THEN x
  ELSE IF y.k = "inf" THEN y
  ELSE Rat(x.n * y.d + y.n * x.d, x.d * y.d)

\* x - y
Sub(x, y) == Add(x, Neg(y))

\* x * y
Mul(x, y) ==
  IF x.k = "nan" \/ y.k = "nan" THEN NaN
  ELSE IF x.k = "inf" \/ y.k = "inf"
       THEN (IF Sign(x) = 0 \/ Sign(y) = 0 THEN NaN ELSE Inf(Sign(x) * Sign(y)))
  ELSE Rat(x.n * y.n, x.d * y.d)

\* x / y
Div(x, y) ==
  IF x.k = "nan" \/ y.k = "nan" THEN NaN
  ELSE IF x.k = "inf" /\ y.k = "inf" THEN NaN
  ELSE IF x.k = "inf" THEN Inf(IF Sign(y) < 0 THEN -Sign(x) ELSE Sign(x))
  ELSE IF y.k = "inf" THEN Zero
  ELSE IF y.n = 0 THEN (IF x.n = 0 THEN NaN ELSE Inf(Sign(x)))
  ELSE Rat(x.n * y.d, x.d * y.n)

\* x < y (false when either side is NaN)
Lt(x, y) ==
  IF x.k = "nan" \/ y.k = "nan" THEN FALSE
  ELSE IF x.k = "inf" THEN x.n < 0 /\ ~(y.k = "inf" /\ y.n < 0)
  ELSE IF y.k = "inf" THEN y.n > 0
  ELSE x.n * y.d < y.n * x.d

\* x === y on numbers (false when either side is NaN)
NumEq(x, y) == x.k # "nan" /\ y.k # "nan" /\ x = y

\* x <= y
Le(x, y) == Lt(x, y) \/ NumEq(x, y)

\* x >= y
Ge(x, y) == Le(y, x)

\* Math.abs
Abs(x) == IF x.k = "nan" THEN NaN ELSE [x EXCEPT !.n = AbsInt(x.n)]

\* Math.min, Math.max (NaN if either argument is NaN)
MathMin(x, y) == IF x.k = "nan" \/ y.k = "nan" THEN NaN ELSE IF Lt(y, x) THEN y ELSE x
MathMax(x, y) == IF x.k = "nan" \/ y.k = "nan" THEN NaN ELSE IF Lt(x, y) THEN y ELSE x

\* Math.max(0, Math.min(1, w))
Clamp01(w) == MathMax(Zero, MathMin(One, w))

-----------------------------------------------------------------------------
(* Dates: a value is a Date object or not; a Date object carries a time    *)
(* value that is a number of ticks, or NaN (Invalid Date).                 *)

DateAt(t) == [isDate |-> TRUE, time |-> Fin(t)]
InvalidDate == [isDate |-> TRUE, time |-> NaN]
NotADate == [isDate |-> FALSE, time |-> NaN]

\* x instanceof Date
InstanceOfDate(x) == x.isDate

-----------------------------------------------------------------------------
(* Outcomes of a call: a returned value or a thrown error *)

NoValue == [none |-> TRUE]

Return(v) == [threw |-> FALSE, error |-> "", value |-> v]
Throw(msg) == [threw |-> TRUE, error |-> msg, value |-> NoValue]

MsgNonFinite == "Beginning value and ending value must be finite numbers."
MsgDates == "Start date and end date must be valid Date objects."
MsgPeriod == "End date must be after start date."
\* the source writes an em dash where this string has " - "
MsgUnstable == "Unstable denominator - beginning value plus weighted cashflows is near zero."
MsgTotalBV == "Total beginning market value must be greater than zero."
MsgPortfolioPrefix == "Portfolio Dietz error: "
\* calling getTime() on a value that is not a Date object
MsgTypeError == "TypeError: getTime is not a function"

-----------------------------------------------------------------------------
(* Sequence helpers *)

RECURSIVE SumSeq(_)
\* arr.reduce((acc, x) => acc + x, 0)
SumSeq(s) == IF s = <<>> THEN Zero ELSE Add(SumSeq(SubSeq(s, 1, Len(s) - 1)), s[Len(s)])

MapSeq(s, Op(_)) == [i \in 1..Len(s) |-> Op(s[i])]

SeqsUpTo(S, n) == UNION {[1..k -> S] : k \in 0..n}

Range(s) == {s[i] : i \in 1..Len(s)}

\* the lists of at most n elements of the sequence choices, each list in the
\* order of choices (for callers that only filter and sum their list)
ListsInOrder(choices, n) ==
  UNION { { [i \in 1..k |-> choices[ix[i]]] :
              ix \in { f \in [1..k -> 1..Len(choices)] :
                         \A i \in 1..(k - 1) : f[i] <= f[i + 1] } } :
          k \in 0..n }

\* What the array methods the functions call on their inputs leave in the
\* receiver: filter, map and reduce build their result apart and do not
\* write to the array they are called on, nor do the callbacks given to
\* them in the source write to its elements.

\* mutant: the receiver is reordered in place, as by sort or reverse
AfterReverse(a) == [i \in 1..Len(a) |-> a[Len(a) + 1 - i]]

AfterFilter(a) == a

AfterMap(a) == a

AfterReduce(a) == a

-----------------------------------------------------------------------------
(* modifiedDietz *)

EPS == 2

\* mutant: cashflows dated after the end of the period are kept
InPeriodNoUpperBound(cf, startDate, endDate) ==
  /\ InstanceOfDate(cf.date)
  /\ Ge(cf.date.time, startDate.time)
  /\ IsFinite(cf.amount)

\* the filter predicate of modifiedDietz
InPeriod(cf, startDate, endDate) ==
  /\ InstanceOfDate(cf.date)
  /\ Ge(cf.date.time, startDate.time)
  /\ Le(cf.date.time, endDate.time)
  /\ IsFinite(cf.amount)

ValidFlows(cashflows, startDate, endDate) ==
  SelectSeq(cashflows, LAMBDA cf : InPeriod(cf, startDate, endDate))

\* T = endDate.getTime() - startDate.getTime()
PeriodT(startDate, endDate) == Sub(endDate.time, startDate.time)

\* wi = (endDate.getTime() - cf.date.getTime()) / T, clamped to [0, 1]
TimeWeight(cf, startDate, endDate) ==
  Clamp01(Div(Sub(endDate.time, cf.date.time), PeriodT(startDate, endDate)))

\* mutant: the amounts are summed without their sign
SumCFUnsigned(validFlows) == SumSeq(MapSeq(validFlows, LAMBDA cf : Abs(cf.amount)))

SumCF(validFlows) == SumSeq(MapSeq(validFlows, LAMBDA cf : cf.amount))

\* mutant: every cashflow counts in full, whatever its date
WeightedCFUnweighted(validFlows, startDate, endDate) ==
  SumSeq(MapSeq(validFlows, LAMBDA cf : cf.amount))

WeightedCF(validFlows, startDate, endDate) ==
  SumSeq(MapSeq(validFlows, LAMBDA cf : Mul(TimeWeight(cf, startDate, endDate), cf.amount)))

Denominator(beginningValue, validFlows, startDate, endDate) ==
  Add(beginningValue, WeightedCF(validFlows, startDate, endDate))

\* mutant: the cashflows are not taken out of the gain
NumeratorIgnoringFlows(beginningValue, endingValue, validFlows) ==
  Sub(endingValue, beginningValue)

Numerator(beginningValue, endingValue, validFlows) ==
  Sub(Sub(endingValue, beginningValue), SumCF(validFlows))

\* mutant: only a denominator of exactly zero is refused
UnstableOnlyZero(denominator) == NumEq(denominator, Zero)

\* Math.abs(denominator) < EPS
Unstable(denominator) == Lt(Abs(denominator), Fin(EPS))

\* mutant: T < 0, an empty period is let through
BadPeriodStrict(startDate, endDate) == Lt(PeriodT(startDate, endDate), Zero)

\* T <= 0
BadPeriod(startDate, endDate) == Le(PeriodT(startDate, endDate), Zero)

\* !(startDate instanceof Date) || !(endDate instanceof Date)
BadDates(startDate, endDate) == ~InstanceOfDate(startDate) \/ ~InstanceOfDate(endDate)

modifiedDietz(beginningValue, endingValue, cashflows, startDate, endDate) ==
  IF ~IsFinite(beginningValue) \/ ~IsFinite(endingValue) THEN Throw(MsgNonFinite)
  ELSE IF BadDates(startDate, endDate) THEN Throw(MsgDates)
  ELSE IF BadPeriod(startDate, endDate) THEN Throw(MsgPeriod)
  ELSE LET validFlows == ValidFlows(cashflows, startDate, endDate)
           denominator == Denominator(beginningValue, validFlows, startDate, endDate)
       IN IF Unstable(denominator) THEN Throw(MsgUnstable)
          ELSE Return(Div(Numerator(beginningValue, endingValue, validFlows), denominator))

-----------------------------------------------------------------------------
(* computeCashflowWeights *)

\* mutant: cashflows dated exactly at the start or at the end are dropped
WeightsInPeriodExclusive(cf, startDate, endDate) ==
  /\ InstanceOfDate(cf.date)
  /\ Lt(startDate.time, cf.date.time)
  /\ Lt(cf.date.time, endDate.time)
  /\ IsFinite(cf.amount)

\* the filter predicate of computeCashflowWeights
WeightsInPeriod(cf, startDate, endDate) ==
  /\ InstanceOfDate(cf.date)
  /\ Ge(cf.date.time, startDate.time)
  /\ Le(cf.date.time, endDate.time)
  /\ IsFinite(cf.amount)

\* mutant: the weight is the elapsed fraction of the period, not the remaining
WeightsTimeWeightElapsed(cf, startDate, endDate) ==
  MathMax(Zero, MathMin(One, Div(Sub(cf.date.time, startDate.time),
                                 Sub(endDate.time, startDate.time))))

\* w = Math.max(0, Math.min(1, (endDate.getTime() - cf.date.getTime()) / T))
WeightsTimeWeight(cf, startDate, endDate) ==
  MathMax(Zero, MathMin(One, Div(Sub(endDate.time, cf.date.time),
                                 Sub(endDate.time, startDate.time))))

WeightedFlow(cf, startDate, endDate) ==
  LET w == WeightsTimeWeight(cf, startDate, endDate)
  IN [date |-> cf.date, amount |-> cf.amount, weight |-> w, weightedAmount |-> Mul(w, cf.amount)]

computeCashflowWeights(cashflows, startDate, endDate) ==
  IF BadDates(startDate, endDate) THEN Throw(MsgTypeError)
  ELSE IF BadPeriod(startDate, endDate) THEN Return(<<>>)
  ELSE Return(MapSeq(SelectSeq(cashflows, LAMBDA cf : WeightsInPeriod(cf, startDate, endDate)),
                     LAMBDA cf : WeightedFlow(cf, startDate, endDate)))

-----------------------------------------------------------------------------
(* annualize: (1 + r)^(365 / days) - 1.  The power is irrational in        *)
(* general, so the returned number is kept as the pair (base, days) that   *)
(* denotes base^(365/days) - 1, together with its kind k: "nan", "inf"     *)
(* (the power overflowed) or "fin".                                        *)

msPerDay == 4

DaysPerYear == 365

\* the binary exponent above which a double is infinite
MaxBinaryExponent == 1024

AnnNaN == [k |-> "nan", base |-> NaN, days |-> 0]

RECURSIVE FloorLog2(_)
FloorLog2(q) == IF q < 2 THEN 0 ELSE 1 + FloorLog2(q \div 2)

\* mutant: the day count is rounded up
MathCeil(x) == -((-x.n) \div x.d)

\* Math.round(x) = floor(x + 1/2), for a finite x
MathRound(x) == (2 * x.n + x.d) \div (2 * x.d)

\* |base|^(365/days) is beyond the largest double: decided on the integer
\* part of |base|, 2^FloorLog2 <= |base|, so the answer TRUE is certain
PowOverflows(base, days) ==
  LET q == AbsInt(base.n) \div base.d
  IN q >= 2 /\ FloorLog2(q) * DaysPerYear >= MaxBinaryExponent * days

\* 1 + r in double precision: exact for the rationals of the model, while
\* a return smaller than 2^-53 is lost in the rounding of the sum
OnePlus(r) == IF r = Tiny THEN One ELSE Add(One, r)

\* mutant: a negative base gives NaN under every exponent
PowMinusOneNaNForNegative(base, days) ==
  IF base.n < 0 THEN AnnNaN
  ELSE [k |-> IF PowOverflows(base, days) THEN "inf" ELSE "fin", base |-> base, days |-> days]

\* Math.pow(base, 365 / days) - 1 for a finite base and days >= 1
PowMinusOne(base, days) ==
  IF base.n < 0 /\ DaysPerYear % days # 0 THEN AnnNaN
  ELSE [k |-> IF PowOverflows(base, days) THEN "inf" ELSE "fin", base |-> base, days |-> days]

annualize(r, start, end) ==
  IF ~IsFinite(r) THEN Return(AnnNaN)
  ELSE IF BadDates(start, end) THEN Throw(MsgTypeError)
  ELSE LET T == PeriodT(start, end)
       IN IF ~IsFinite(T) THEN Return(AnnNaN)
          ELSE LET days == MathRound(Div(T, Fin(msPerDay)))
               IN IF days <= 0 THEN Return(AnnNaN)
                  ELSE Return(PowMinusOne(OnePlus(r), days))

-----------------------------------------------------------------------------
(* computePortfolioReturns *)

RECURSIVE FlattenSeq(_)
FlattenSeq(ss) == IF ss = <<>> THEN <<>> ELSE ss[1] \o FlattenSeq(Tail(ss))

\* cashflows.filter(cf => cf.assetClass === asset.name).map(cf => ({date, amount}))
AssetFlows(asset, cashflows) ==
  MapSeq(SelectSeq(cashflows, LAMBDA cf : cf.assetClass = asset.name),
         LAMBDA cf : [date |-> cf.date, amount |-> cf.amount])

\* cashflows.map(cf => ({date, amount}))
AllFlows(cashflows) == MapSeq(cashflows, LAMBDA cf : [date |-> cf.date, amount |-> cf.amount])

\* mutant: the special case is taken only when no cashflow matches
ZeroBasisNoFlowsOnly(asset, assetFlows) ==
  NumEq(asset.beginningValue, Zero) /\ Len(assetFlows) = 0

\* the zero-basis special case
ZeroBasis(asset, assetFlows) ==
  /\ NumEq(asset.beginningValue, Zero)
  /\ \/ Len(assetFlows) = 0
     \/ Lt(Abs(SumCF(assetFlows)), Fin(EPS))

\* the body of the try block of one asset
AssetDietz(asset, cashflows, startDate, endDate) ==
  LET assetFlows == AssetFlows(asset, cashflows)
  IN IF ZeroBasis(asset, assetFlows) THEN Return(Zero)
     ELSE modifiedDietz(asset.beginningValue, asset.endingValue, assetFlows, startDate, endDate)

\* mutant: the issue does not name the asset
AssetIssuesMessageOnly(asset, dietz) ==
  IF dietz.threw THEN <<dietz.error>> ELSE <<>>

\* the catch block of one asset: the issue it pushes, if any
AssetIssues(asset, dietz) ==
  IF dietz.threw THEN <<asset.name \o ": " \o dietz.error>> ELSE <<>>

\* mutant: the growth factor 1 + r in place of the return r
AssetPeriodReturnAsGrowth(dietz) == IF dietz.threw THEN Zero ELSE Add(One, dietz.value)

AssetPeriodReturn(dietz) == IF dietz.threw THEN Zero ELSE dietz.value

\* mutant: the total of the absolute beginning values
TotalBVAbsolute(assets) == SumSeq(MapSeq(assets, LAMBDA a : Abs(a.beginningValue)))

TotalBV(assets) == SumSeq(MapSeq(assets, LAMBDA a : a.beginningValue))

\* mutant: ending values that are no finite numbers are left out of the total
TotalEVFiniteOnly(assets) ==
  SumSeq(MapSeq(assets, LAMBDA a : IF IsFinite(a.endingValue) THEN a.endingValue ELSE Zero))

TotalEV(assets) == SumSeq(MapSeq(assets, LAMBDA a : a.endingValue))

\* mutant: the weight is taken from the ending value
AssetResultWeightByEnding(asset, totalBV, periodReturn, annualizedReturn) ==
  LET weight == Div(asset.endingValue, totalBV)
  IN [name |-> asset.name,
      beginningValue |-> asset.beginningValue,
      endingValue |-> asset.endingValue,
      weight |-> weight,
      periodReturn |-> periodReturn,
      annualizedReturn |-> annualizedReturn,
      contribution |-> Mul(weight, periodReturn)]

AssetResult(asset, totalBV, periodReturn, annualizedReturn) ==
  LET weight == Div(asset.beginningValue, totalBV)
  IN [name |-> asset.name,
      beginningValue |-> asset.beginningValue,
      endingValue |-> asset.endingValue,
      weight |-> weight,
      periodReturn |-> periodReturn,
      annualizedReturn |-> annualizedReturn,
      contribution |-> Mul(weight, periodReturn)]

\* mutant: the portfolio-level call is given only the cashflows whose
\* assetClass is the name of an asset
PortfolioDietzOfMatchedFlows(assets, cashflows, startDate, endDate) ==
  modifiedDietz(TotalBV(assets), TotalEV(assets),
                AllFlows(SelectSeq(cashflows, LAMBDA cf :
                           \E i \in 1..Len(assets) : cf.assetClass = assets[i].name)),
                startDate, endDate)

\* the portfolio-level call of modifiedDietz
PortfolioDietz(assets, cashflows, startDate, endDate) ==
  modifiedDietz(TotalBV(assets), TotalEV(assets), AllFlows(cashflows), startDate, endDate)

\* mutant: the portfolio-level failure is recovered like an asset's
PortfolioCatchRecover(dietz) ==
  IF dietz.threw THEN Return(Zero) ELSE dietz

\* the catch block of the portfolio-level call: the error is thrown again
PortfolioCatch(dietz) ==
  IF dietz.threw THEN Throw(MsgPortfolioPrefix \o dietz.error) ELSE dietz

\* mutant: totalBV < 0, a total of zero is let through
NoBasisStrict(totalBV) == Lt(totalBV, Zero)

\* totalBV <= 0
NoBasis(totalBV) == Le(totalBV, Zero)

computePortfolioReturns(assets, cashflows, startDate, endDate) ==
  LET totalBV == TotalBV(assets)
      dietz == MapSeq(assets, LAMBDA a : AssetDietz(a, cashflows, startDate, endDate))
      ann == [i \in 1..Len(assets) |-> annualize(AssetPeriodReturn(dietz[i]), startDate, endDate)]
      portfolio == PortfolioCatch(PortfolioDietz(assets, cashflows, startDate, endDate))
  IN IF NoBasis(totalBV) THEN Throw(MsgTotalBV)
     ELSE IF \E i \in 1..Len(assets) : ann[i].threw THEN Throw(MsgTypeError)
     ELSE IF portfolio.threw THEN portfolio
     ELSE LET portfolioAnnualized == annualize(portfolio.value, startDate, endDate)
          IN IF portfolioAnnualized.threw THEN Throw(MsgTypeError)
             ELSE Return(
               [assetResults |->
                  [i \in 1..Len(assets) |->
                     AssetResult(assets[i], totalBV, AssetPeriodReturn(dietz[i]), ann[i].value)],
                portfolio |->
                  [beginningValue |-> totalBV,
                   endingValue |-> TotalEV(assets),
                   periodReturn |-> portfolio.value,
                   annualizedReturn |-> portfolioAnnualized.value],
                issues |-> FlattenSeq([i \in 1..Len(assets) |-> AssetIssues(assets[i], dietz[i])])])

-----------------------------------------------------------------------------
(* brinsonFachler *)

BFPortfolioReturn(assets) ==
  SumSeq(MapSeq(assets, LAMBDA a : Mul(a.portfolioWeight, a.portfolioReturn)))

BFBenchmarkReturn(assets) ==
  SumSeq(MapSeq(assets, LAMBDA a : Mul(a.benchmarkWeight, a.benchmarkReturn)))

\* mutant: allocation weighted by the portfolio weight, not the weight difference
AllocationByPortfolioWeight(a, benchmarkReturn) ==
  Mul(a.portfolioWeight, Sub(a.benchmarkReturn, benchmarkReturn))

Allocation(a, benchmarkReturn) ==
  Mul(Sub(a.portfolioWeight, a.benchmarkWeight), Sub(a.benchmarkReturn, benchmarkReturn))

\* mutant: selection weighted by the portfolio weight
SelectionByPortfolioWeight(a) ==
  Mul(a.portfolioWeight, Sub(a.portfolioReturn, a.benchmarkReturn))

Selection(a) == Mul(a.benchmarkWeight, Sub(a.portfolioReturn, a.benchmarkReturn))

Interaction(a) ==
  Mul(Sub(a.portfolioWeight, a.benchmarkWeight), Sub(a.portfolioReturn, a.benchmarkReturn))

Attribution(a, benchmarkReturn) ==
  LET allocation == Allocation(a, benchmarkReturn)
      selection == Selection(a)
      interaction == Interaction(a)
  IN [name |-> a.name,
      portfolioWeight |-> a.portfolioWeight,
      portfolioReturn |-> a.portfolioReturn,
      benchmarkWeight |-> a.benchmarkWeight,
      benchmarkReturn |-> a.benchmarkReturn,
      allocation |-> allocation,
      selection |-> selection,
      interaction |-> interaction,
      total |-> Add(Add(allocation, selection), interaction)]

\* the effects of one attribution row, in the order the insight loop visits them
Effects(d) ==
  << [name |-> d.name, value |-> d.allocation, type |-> "Asset Allocation"],
     [name |-> d.name, value |-> d.selection, type |-> "Stock Selection"],
     [name |-> d.name, value |-> d.interaction, type |-> "Interaction"] >>

RECURSIVE MaxPositiveOfAllocation(_)
\* mutant: only the allocation effects compete for the top contributor
MaxPositiveOfAllocation(effects) ==
  IF effects = <<>> THEN [name |-> "", value |-> NegInf, type |-> ""]
  ELSE LET prev == MaxPositiveOfAllocation(SubSeq(effects, 1, Len(effects) - 1))
           e == effects[Len(effects)]
       IN IF e.type = "Asset Allocation" /\ Lt(prev.value, e.value) THEN e ELSE prev

RECURSIVE MaxPositive(_)
\* if (e.value > maxPositive.value) maxPositive = e, from value -Infinity
MaxPositive(effects) ==
  IF effects = <<>> THEN [name |-> "", value |-> NegInf, type |-> ""]
  ELSE LET prev == MaxPositive(SubSeq(effects, 1, Len(effects) - 1))
           e == effects[Len(effects)]
       IN IF Lt(prev.value, e.value) THEN e ELSE prev

RECURSIVE MaxNegative(_)
\* if (e.value < maxNegative.value) maxNegative = e, from value +Infinity
MaxNegative(effects) ==
  IF effects = <<>> THEN [name |-> "", value |-> PosInf, type |-> ""]
  ELSE LET prev == MaxNegative(SubSeq(effects, 1, Len(effects) - 1))
           e == effects[Len(effects)]
       IN IF Lt(e.value, prev.value) THEN e ELSE prev

\* the insight text, kept as its parts: the verb of the first sentence, the
\* magnitude it prints, and the contributor and detractor sentences (a
\* sequence that is empty when the sentence is left out)
Insight(attribution, activeReturn) ==
  LET effects == FlattenSeq(MapSeq(attribution, Effects))
      maxPositive == MaxPositive(effects)
      maxNegative == MaxNegative(effects)
  IN [text |-> IF Lt(Zero, activeReturn) THEN "outperformed" ELSE "underperformed",
      magnitude |-> Abs(activeReturn),
      contributor |-> IF Lt(Zero, maxPositive.value) THEN <<maxPositive>> ELSE <<>>,
      detractor |-> IF Lt(maxNegative.value, Zero) THEN <<maxNegative>> ELSE <<>>]

\* mutant: the empty result carries no explanation
NoDataInsightBlank ==
  [text |-> "", magnitude |-> Zero, contributor |-> <<>>, detractor |-> <<>>]

NoDataInsight ==
  [text |-> "No data to analyze.", magnitude |-> Zero, contributor |-> <<>>, detractor |-> <<>>]

\* the value of the parameter when the caller passes no list (undefined or
\* null); it is written as a one-element sequence only so that it can be
\* compared with the lists
Undefined == << [undefined |-> TRUE] >>

brinsonFachler(assets) ==
  IF assets = Undefined \/ Len(assets) = 0
  THEN [attribution |-> <<>>,
        totals |-> [allocation |-> Zero, selection |-> Zero, interaction |-> Zero,
                    activeReturn |-> Zero],
        portfolioReturn |-> Zero,
        benchmarkReturn |-> Zero,
        totalPortfolioWeight |-> Zero,
        totalBenchmarkWeight |-> Zero,
        insight |-> NoDataInsight]
  ELSE LET portfolioReturn == BFPortfolioReturn(assets)
           benchmarkReturn == BFBenchmarkReturn(assets)
           attribution == MapSeq(assets, LAMBDA a : Attribution(a, benchmarkReturn))
           activeReturn == Sub(portfolioReturn, benchmarkReturn)
       IN [attribution |-> attribution,
           totals |-> [allocation |-> SumSeq(MapSeq(attribution, LAMBDA d : d.allocation)),
                       selection |-> SumSeq(MapSeq(attribution, LAMBDA d : d.selection)),
                       interaction |-> SumSeq(MapSeq(attribution, LAMBDA d : d.interaction)),
                       activeReturn |-> activeReturn],
           portfolioReturn |-> portfolioReturn,
           benchmarkReturn |-> benchmarkReturn,
           totalPortfolioWeight |-> SumSeq(MapSeq(assets, LAMBDA a : a.portfolioWeight)),
           totalBenchmarkWeight |-> SumSeq(MapSeq(assets, LAMBDA a : a.benchmarkWeight)),
           insight |-> Insight(attribution, activeReturn)]

-----------------------------------------------------------------------------
(* PerformancePage: the Adjusted Cashflows table *)

\* !startDate: the store holds null or a Date object
Falsy(date) == ~InstanceOfDate(date)

\* cashflows[i]?.rawAmount || Math.abs(wf.amount): a number is taken as
\* false if it is NaN or zero
RawAmountOr(cashflows, i, wf) ==
  IF i \in DOMAIN cashflows
     /\ ~(cashflows[i].rawAmount.k = "nan" \/ cashflows[i].rawAmount = Zero)
    THEN cashflows[i].rawAmount
    ELSE Abs(wf.amount)

\* cashflows[i]?.field || '', for the fields assetClass, type and details
FieldOr(cashflows, i, field) ==
  IF i \in DOMAIN cashflows THEN cashflows[i][field] ELSE ""

\* the row made of the i-th entry of computeCashflowWeights
AdjustedRow(wf, cashflows, i) ==
  [date |-> wf.date, amount |-> wf.amount,
   weight |-> wf.weight, weightedAmount |-> wf.weightedAmount,
   assetClass |-> FieldOr(cashflows, i, "assetClass"),
   type |-> FieldOr(cashflows, i, "type"),
   details |-> FieldOr(cashflows, i, "details"),
   rawAmount |-> RawAmountOr(cashflows, i, wf)]

adjustedFlows(cashflows, startDate, endDate) ==
  IF Falsy(startDate) \/ Falsy(endDate) \/ Len(cashflows) = 0 THEN Return(<<>>)
  ELSE LET weighted ==
             computeCashflowWeights(
               MapSeq(cashflows, LAMBDA cf : [date |-> cf.date, amount |-> cf.amount]),
               startDate, endDate)
       IN IF weighted.threw THEN weighted
          ELSE Return([i \in 1..Len(weighted.value) |->
                        AdjustedRow(weighted.value[i], cashflows, i)])

-----------------------------------------------------------------------------
(* PerformancePage and the store: results and performanceResults.  null is *)
(* NoValue; the memo results is null, Return(r) for a result r, or         *)
(* Throw(msg) for the object { error: msg }.                               *)

\* the store as created, and as resetAll leaves it
StoreInitial ==
  [assets |-> <<>>, cashflows |-> <<>>, startDate |-> NotADate, endDate |-> NotADate]

\* the useMemo callback of results
Results(store) ==
  IF Falsy(store.startDate) \/ Falsy(store.endDate) \/ Len(store.assets) = 0 THEN NoValue
  ELSE computePortfolioReturns(store.assets, store.cashflows, store.startDate, store.endDate)

\* results && !results.error
ResultsToSave(results) == results # NoValue /\ ~(results.threw /\ results.error # "")

\* mutant: the store's field follows the memo, and is cleared with it
SaveOrClear(results, stored) ==
  IF ResultsToSave(results) THEN results.value ELSE NoValue

\* the store's performanceResults after the save hook has run
Save(results, stored) ==
  IF ResultsToSave(results) THEN results.value ELSE stored

-----------------------------------------------------------------------------
(* callClaude, callGemini *)

AIServices == {"callClaude", "callGemini"}

\* what getApiKey can return: nothing, the placeholder of the .env
\* template, a key
ApiKeys == {"", "your_api_key_here", "key"}

KeyConfigured(apiKey) == ~(apiKey = "" \/ apiKey = "your_api_key_here")

NotConfiguredMessage(service) ==
  IF service = "callClaude"
    THEN "Anthropic API key not configured. Add VITE_ANTHROPIC_API_KEY to your .env file."
    ELSE "Gemini API key not configured. Add VITE_GEMINI_API_KEY to your .env file."

delays == <<1000, 2000, 4000, 8000, 16000>>

\* mutant: the loop runs once per delay
maxAttemptsOnePerDelay == Len(delays)

maxAttempts == Len(delays) + 1

\* The ways a request can end.  fetch rejects (reached = FALSE), or a
\* response comes with a status that is OK or not and a body that is not
\* JSON ("unparseable"), the JSON value null ("null"), JSON without a text
\* at the place the service puts it ("object"), or JSON with the text
\* there ("text").
Responses ==
  {[reached |-> FALSE, ok |-> FALSE, body |-> "none", text |-> ""]}
  \cup {[reached |-> TRUE, ok |-> FALSE, body |-> "unparseable", text |-> ""]}
  \cup {[reached |-> TRUE, ok |-> TRUE, body |-> b, text |-> ""] :
          b \in {"unparseable", "null", "object"}}
  \cup {[reached |-> TRUE, ok |-> TRUE, body |-> "text", text |-> "Summary."]}

\* whether the try block of one iteration throws: fetch rejected, the
\* status is not OK, response.json() rejected, or result is null, of which
\* result.content (result.candidates) cannot be read
AttemptThrows(r) ==
  \/ ~r.reached
  \/ ~r.ok
  \/ r.body = "unparseable"
  \/ r.body = "null"

AttemptError(r) ==
  IF ~r.reached THEN "Failed to fetch"
  ELSE IF ~r.ok THEN "HTTP status"
  ELSE IF r.body = "unparseable" THEN "SyntaxError"
  ELSE "TypeError"

\* result.content?.[0]?.text || ''
ResponseText(r) == IF r.body = "text" THEN r.text ELSE ""

-----------------------------------------------------------------------------
(* csvParser: autoMapColumns.  A string is the sequence of its characters, *)
(* so that canon and String.prototype.includes are computed, not assumed.  *)

UpperCase ==
  <<"A", "B", "C", "D", "E", "F", "G", "H", "I", "J", "K", "L", "M",
    "N", "O", "P", "Q", "R", "S", "T", "U", "V", "W", "X", "Y", "Z">>

LowerCase ==
  <<"a", "b", "c", "d", "e", "f", "g", "h", "i", "j", "k", "l", "m",
    "n", "o", "p", "q", "r", "s", "t", "u", "v", "w", "x", "y", "z">>

\* toLowerCase, of one character
ToLowerCase(c) ==
  IF \E i \in 1..Len(UpperCase) : UpperCase[i] = c
    THEN LowerCase[CHOOSE i \in 1..Len(UpperCase) : UpperCase[i] = c]
    ELSE c

\* String(s).toLowerCase().replace(/[^a-z0-9]/g, '')
canon(s) ==
  SelectSeq([i \in 1..Len(s) |-> ToLowerCase(s[i])],
            LAMBDA c : c \in Range(LowerCase)
                         \cup {"0", "1", "2", "3", "4", "5", "6", "7", "8", "9"})

\* s.includes(t)
Includes(s, t) ==
  \E i \in 0..(Len(s) - Len(t)) : SubSeq(s, i + 1, i + Len(t)) = t

ASSET_COLUMN_ALIASES ==
  << [target |-> "assetClass",
       aliases |-> << <<"a", "s", "s", "e", "t", "c", "l", "a", "s", "s">>,
                    <<"a", "s", "s", "e", "t">>,
                    <<"c", "l", "a", "s", "s">>,
                    <<"s", "e", "c", "t", "o", "r">>,
                    <<"f", "u", "n", "d">>,
                    <<"c", "a", "t", "e", "g", "o", "r", "y">> >>],
     [target |-> "beginningValue",
       aliases |-> << <<"b", "e", "g", "i", "n", "n", "i", "n", "g", "m", "v">>,
                    <<"o", "p", "e", "n", "i", "n", "g", "m", "v">>,
                    <<"b", "v">>,
                    <<"b", "m", "v">>,
                    <<"s", "t", "a", "r", "t", "m", "v">>,
                    <<"b", "e", "g", "i", "n", "n", "i", "n", "g", "v", "a", "l", "u", "e">>,
                    <<"o", "p", "e", "n", "i", "n", "g", "v", "a", "l", "u", "e">>,
                    <<"s", "t", "a", "r", "t", "v", "a", "l", "u", "e">>,
                    <<"b", "e", "g", "i", "n", "m", "v">> >>],
     [target |-> "endingValue",
       aliases |-> << <<"e", "n", "d", "i", "n", "g", "m", "v">>,
                    <<"c", "l", "o", "s", "i", "n", "g", "m", "v">>,
                    <<"e", "v">>,
                    <<"e", "m", "v">>,
                    <<"e", "n", "d", "m", "v">>,
                    <<"e", "n", "d", "i", "n", "g", "v", "a", "l", "u", "e">>,
                    <<"c", "l", "o", "s", "i", "n", "g", "v", "a", "l", "u", "e">>,
                    <<"e", "n", "d", "v", "a", "l", "u", "e">> >>] >>

CASHFLOW_COLUMN_ALIASES ==
  << [target |-> "transactionDate",
       aliases |-> << <<"t", "r", "a", "n", "s", "a", "c", "t", "i", "o", "n", "d", "a", "t", "e">>,
                    <<"d", "a", "t", "e">>,
                    <<"t", "r", "a", "d", "e", "d", "a", "t", "e">>,
                    <<"v", "a", "l", "u", "e", "d", "a", "t", "e">>,
                    <<"t", "x", "d", "a", "t", "e">>,
                    <<"t", "x", "n", "d", "a", "t", "e">> >>],
     [target |-> "transactionType",
       aliases |-> << <<"t", "r", "a", "n", "s", "a", "c", "t", "i", "o", "n", "t", "y", "p", "e">>,
                    <<"t", "y", "p", "e">>,
                    <<"t", "x", "t", "y", "p", "e">>,
                    <<"t", "x", "n", "t", "y", "p", "e">>,
                    <<"d", "i", "r", "e", "c", "t", "i", "o", "n">>,
                    <<"f", "l", "o", "w", "t", "y", "p", "e">> >>],
     [target |-> "details",
       aliases |-> << <<"t", "r", "a", "n", "s", "a", "c", "t", "i", "o", "n", "d", "e", "t", "a", "i", "l", "s">>,
                    <<"d", "e", "t", "a", "i", "l", "s">>,
                    <<"d", "e", "s", "c", "r", "i", "p", "t", "i", "o", "n">>,
                    <<"n", "a", "r", "r", "a", "t", "i", "o", "n">>,
                    <<"m", "e", "m", "o">>,
                    <<"n", "o", "t", "e", "s">>,
                    <<"r", "e", "f", "e", "r", "e", "n", "c", "e">> >>],
     [target |-> "amount",
       aliases |-> << <<"a", "m", "o", "u", "n", "t">>,
                    <<"a", "m", "t">>,
                    <<"v", "a", "l", "u", "e">>,
                    <<"c", "a", "s", "h", "f", "l", "o", "w">>,
                    <<"c", "f">>,
                    <<"f", "l", "o", "w">> >>],
     [target |-> "assetClass",
       aliases |-> << <<"a", "s", "s", "e", "t", "c", "l", "a", "s", "s">>,
                    <<"a", "s", "s", "e", "t">>,
                    <<"c", "l", "a", "s", "s">>,
                    <<"s", "e", "c", "t", "o", "r">>,
                    <<"f", "u", "n", "d">>,
                    <<"c", "a", "t", "e", "g", "o", "r", "y">> >>] >>

\* canonHeaders.find(pred): the index of the first header that satisfies
\* pred, 0 if there is none
FindHeader(rawHeaders, pred(_)) ==
  IF \E i \in 1..Len(rawHeaders) : pred(rawHeaders[i])
    THEN CHOOSE i \in 1..Len(rawHeaders) :
           /\ pred(rawHeaders[i])
           /\ \A j \in 1..(i - 1) : ~pred(rawHeaders[j])
    ELSE 0

\* h.canon.includes(alias) || alias.includes(h.canon)
SubstringMatch(h, alias) == Includes(canon(h), alias) \/ Includes(alias, canon(h))

\* the first loop over the aliases: the header of the first alias that some
\* header equals, as a one-element sequence, or <<>>
RECURSIVE ExactLoop(_, _, _)
ExactLoop(rawHeaders, aliases, k) ==
  IF k > Len(aliases) THEN <<>>
  ELSE LET found == FindHeader(rawHeaders, LAMBDA h : canon(h) = aliases[k])
       IN IF found # 0 THEN <<rawHeaders[found]>>
          ELSE ExactLoop(rawHeaders, aliases, k + 1)

\* !Object.values(mapping).includes(found.raw)
Unused(mapping, raw) == raw \notin {mapping[t] : t \in DOMAIN mapping}

\* the fallback loop: the first header found for the first alias whose find
\* gives a header that no target has yet
RECURSIVE FallbackLoop(_, _, _, _)
FallbackLoop(rawHeaders, aliases, k, mapping) ==
  IF k > Len(aliases) THEN <<>>
  ELSE LET found == FindHeader(rawHeaders, LAMBDA h : SubstringMatch(h, aliases[k]))
       IN IF found # 0 /\ Unused(mapping, rawHeaders[found]) THEN <<rawHeaders[found]>>
          ELSE FallbackLoop(rawHeaders, aliases, k + 1, mapping)

\* one pass of the loop over Object.entries(aliasMap)
MapTarget(rawHeaders, entry, mapping) ==
  LET exact == ExactLoop(rawHeaders, entry.aliases, 1)
      fallback == FallbackLoop(rawHeaders, entry.aliases, 1, mapping)
      header == IF exact # <<>> THEN exact ELSE fallback
  IN IF header = <<>> THEN mapping
     ELSE [t \in DOMAIN mapping \cup {entry.target} |->
             IF t = entry.target THEN header[1] ELSE mapping[t]]

\* the mapping after the first k entries of aliasMap
RECURSIVE MappingAfter(_, _, _)
MappingAfter(rawHeaders, aliasMap, k) ==
  IF k = 0 THEN << >>
  ELSE MapTarget(rawHeaders, aliasMap[k], MappingAfter(rawHeaders, aliasMap, k - 1))

\* Object.keys(aliasMap).filter((k) => !mapping[k]): a target is missing if
\* it has no header or the empty string for one
Missing(aliasMap, mapping) ==
  SelectSeq([i \in 1..Len(aliasMap) |-> aliasMap[i].target],
            LAMBDA t : t \notin DOMAIN mapping \/ mapping[t] = <<>>)

autoMapColumns(rawHeaders, aliasMap) ==
  LET mapping == MappingAfter(rawHeaders, aliasMap, Len(aliasMap))
  IN [mapping |-> mapping, missing |-> Missing(aliasMap, mapping)]


-----------------------------------------------------------------------------
(* The inputs the functions are called on *)

MaxFlows == 2
MaxAssets == 2
MaxClasses == 2

\* periods as <<startDate, endDate>>: positive spans of 1 day, 2 days and
\* 1 day starting later; an empty and a negative span; invalid dates and
\* values that are no Date objects
DietzPeriods ==
  { <<DateAt(0), DateAt(4)>>, <<DateAt(0), DateAt(8)>>, <<DateAt(4), DateAt(8)>>,
    <<DateAt(4), DateAt(4)>>, <<DateAt(4), DateAt(0)>>,
    <<InvalidDate, DateAt(4)>>, <<DateAt(0), InvalidDate>>,
    <<NotADate, DateAt(4)>>, <<DateAt(0), NotADate>> }

DietzFlowChoices ==
  << [date |-> DateAt(0), amount |-> Fin(-4)], [date |-> DateAt(0), amount |-> Fin(2)],
     [date |-> DateAt(1), amount |-> Fin(-4)], [date |-> DateAt(1), amount |-> Fin(2)],
     [date |-> DateAt(4), amount |-> Fin(-4)], [date |-> DateAt(4), amount |-> Fin(2)],
     [date |-> DateAt(5), amount |-> Fin(-4)], [date |-> DateAt(5), amount |-> Fin(2)],
     [date |-> NotADate, amount |-> Fin(2)], [date |-> DateAt(1), amount |-> NaN] >>

DietzBeginningValues == {Fin(-4), Zero, Fin(2), Fin(4), Fin(8), NaN}
DietzEndingValues == {Zero, Fin(4), PosInf}

DietzFlowLists == ListsInOrder(DietzFlowChoices, MaxFlows)

\* the outflow break-even example, beginning value : ending value : outflow
\* = 1000 : 800 : -200, in the model's money unit at the scale 20 : 16 : -4,
\* with the outflow dated at any of these times
DietzBreakEven == [beginningValue |-> Fin(20), endingValue |-> Fin(16), amount |-> Fin(-4)]
DietzBreakEvenTimes == {0, 1, 4, 5, 8}

WeightsFlowLists == SeqsUpTo(Range(DietzFlowChoices), MaxFlows)

\* periods of a quarter day, half a day, 1, 2, 5 and 365 days, and the bad ones
AnnualizePeriods ==
  { <<DateAt(0), DateAt(1)>>, <<DateAt(0), DateAt(2)>>, <<DateAt(0), DateAt(4)>>,
    <<DateAt(0), DateAt(8)>>, <<DateAt(0), DateAt(20)>>, <<DateAt(0), DateAt(1460)>>,
    <<DateAt(4), DateAt(4)>>, <<DateAt(4), DateAt(0)>>,
    <<InvalidDate, DateAt(4)>>, <<DateAt(0), InvalidDate>>,
    <<NotADate, DateAt(4)>>, <<DateAt(0), NotADate>> }

AnnualizeReturns ==
  {Fin(-3), Fin(-2), Fin(-1), Rat(-1, 2), Zero, Tiny, Rat(1, 8), One, Fin(3), Fin(7), Fin(63),
   NaN, PosInf, NegInf}

AssetNames == <<"A", "B", "C">>

\* <<beginningValue, endingValue>>
PortfolioAssetValues ==
  { <<Fin(-4), Zero>>, <<Zero, Fin(8)>>, <<Fin(4), Zero>>, <<Fin(4), Fin(8)>> }

\* <<beginningValue, endingValue>> with a value that is no finite number
PortfolioNonFiniteValues ==
  { <<NaN, Fin(4)>>, <<Fin(4), PosInf>>, <<NegInf, Zero>>, <<Zero, NaN>> }

\* the i-th asset of a list is named AssetNames[i]
PortfolioAssets(v) ==
  [i \in 1..Len(v) |-> [name |-> AssetNames[i],
                        beginningValue |-> v[i][1],
                        endingValue |-> v[i][2]]]

\* the last one has a class that is no asset's name (it differs from "A" by
\* its case)
PortfolioFlowChoices ==
  << [date |-> DateAt(0), amount |-> Fin(-4), assetClass |-> "A"],
     [date |-> DateAt(4), amount |-> Fin(4), assetClass |-> "A"],
     [date |-> DateAt(0), amount |-> One, assetClass |-> "B"],
     [date |-> DateAt(0), amount |-> Fin(-4), assetClass |-> "B"],
     [date |-> DateAt(4), amount |-> Fin(4), assetClass |-> "B"],
     [date |-> DateAt(9), amount |-> Fin(4), assetClass |-> "B"],
     [date |-> DateAt(0), amount |-> Fin(-4), assetClass |-> "a"] >>

PortfolioFlowLists == ListsInOrder(PortfolioFlowChoices, MaxFlows)

\* the two-asset example, Equities 500000 -> 560000 and Cash 50000 -> 50500,
\* in the model's money unit at the scale 1 : 500
PortfolioExample ==
  << [name |-> "Equities", beginningValue |-> Fin(1000), endingValue |-> Fin(1120)],
     [name |-> "Cash", beginningValue |-> Fin(100), endingValue |-> Fin(101)] >>

PortfolioPeriods ==
  { <<DateAt(0), DateAt(4)>>, <<DateAt(0), DateAt(8)>>, <<DateAt(0), DateAt(1)>>,
    <<DateAt(4), DateAt(4)>>, <<DateAt(4), DateAt(0)>>,
    <<InvalidDate, DateAt(4)>>, <<NotADate, DateAt(4)>> }

\* <<portfolioWeight, portfolioReturn, benchmarkWeight, benchmarkReturn>>
AttributionValues ==
  {Zero, One, Fin(2)} \X {Zero, Fin(2)} \X {One, Fin(2)} \X {Fin(-1), One}

\* the i-th asset class of a list is named AssetNames[i]
AttributionInputs(v) ==
  [i \in 1..Len(v) |-> [name |-> AssetNames[i],
                        portfolioWeight |-> v[i][1],
                        portfolioReturn |-> v[i][2],
                        benchmarkWeight |-> v[i][3],
                        benchmarkReturn |-> v[i][4]]]

-----------------------------------------------------------------------------
(* The state machine: a call is drawn (Init), then evaluated (one action   *)
(* per function)                                                           *)

InitModifiedDietz ==
  /\ fn = "modifiedDietz"
  /\ \/ \E bv \in DietzBeginningValues, ev \in DietzEndingValues,
           cfs \in DietzFlowLists, p \in DietzPeriods :
          args = [beginningValue |-> bv, endingValue |-> ev, cashflows |-> cfs,
                  startDate |-> p[1], endDate |-> p[2]]
     \/ \E t \in DietzBreakEvenTimes, p \in DietzPeriods :
          args = [beginningValue |-> DietzBreakEven.beginningValue,
                  endingValue |-> DietzBreakEven.endingValue,
                  cashflows |-> << [date |-> DateAt(t), amount |-> DietzBreakEven.amount] >>,
                  startDate |-> p[1], endDate |-> p[2]]

InitComputeCashflowWeights ==
  /\ fn = "computeCashflowWeights"
  /\ \E cfs \in WeightsFlowLists, p \in DietzPeriods :
       args = [cashflows |-> cfs, startDate |-> p[1], endDate |-> p[2]]

InitAnnualize ==
  /\ fn = "annualize"
  /\ \E r \in AnnualizeReturns, p \in AnnualizePeriods :
       args = [r |-> r, start |-> p[1], end |-> p[2]]

\* a portfolio with an overdrawn cash account: a negative beginning value
\* under a positive total
PortfolioOverdrawn ==
  << [name |-> "Equities", beginningValue |-> Fin(8), endingValue |-> Fin(8)],
     [name |-> "Cash", beginningValue |-> Fin(-4), endingValue |-> Fin(-4)] >>

\* a portfolio with a position worth less than EPS, and more at the end
PortfolioDust ==
  << [name |-> "Equities", beginningValue |-> Fin(8), endingValue |-> Fin(12)],
     [name |-> "Cash", beginningValue |-> One, endingValue |-> Fin(2)] >>

InitComputePortfolioReturns ==
  /\ fn = "computePortfolioReturns"
  /\ \E k \in 0..MaxAssets, p \in PortfolioPeriods :
       \* finite asset values with up to MaxFlows cashflows, or any asset
       \* values with at most one cashflow
       \/ \E v \in [1..k -> PortfolioAssetValues], cfs \in PortfolioFlowLists :
            args = [assets |-> PortfolioAssets(v), cashflows |-> cfs,
                    startDate |-> p[1], endDate |-> p[2]]
       \/ \E v \in [1..k -> PortfolioAssetValues \cup PortfolioNonFiniteValues],
             cfs \in {l \in PortfolioFlowLists : Len(l) <= 1} :
            args = [assets |-> PortfolioAssets(v), cashflows |-> cfs,
                    startDate |-> p[1], endDate |-> p[2]]
       \/ \E a \in {PortfolioExample, PortfolioOverdrawn, PortfolioDust} :
            args = [assets |-> a, cashflows |-> <<>>,
                    startDate |-> p[1], endDate |-> p[2]]

InitBrinsonFachler ==
  /\ fn = "brinsonFachler"
  /\ \/ \E k \in 0..MaxClasses :
          \E v \in [1..k -> AttributionValues] : args = [assets |-> AttributionInputs(v)]
     \/ args = [assets |-> Undefined]

\* The cashflows the page holds come from parseCashflowsCSV or from the
\* sample data: a valid date, a raw amount that is finite and not negative,
\* the amount signed by the type.  They are dated a day before, a day after
\* and in the middle of the first period below.
PageFlowChoices ==
  << [date |-> DateAt(0), amount |-> Fin(4), assetClass |-> "Equities",
      type |-> "INFLOW", details |-> "first", rawAmount |-> Fin(4)],
     [date |-> DateAt(8), amount |-> Fin(-2), assetClass |-> "Cash",
      type |-> "OUTFLOW", details |-> "second", rawAmount |-> Fin(2)],
     [date |-> DateAt(12), amount |-> Zero, assetClass |-> "Equities",
      type |-> "INFLOW", details |-> "", rawAmount |-> Zero],
     [date |-> DateAt(20), amount |-> Fin(6), assetClass |-> "Bonds",
      type |-> "INFLOW", details |-> "fourth", rawAmount |-> Fin(6)] >>

PageFlowLists == SeqsUpTo(Range(PageFlowChoices), MaxFlows)

\* the dates of the store: null until set, then Date objects
PagePeriods ==
  { <<DateAt(4), DateAt(16)>>, <<DateAt(0), DateAt(20)>>, <<DateAt(8), DateAt(8)>>,
    <<DateAt(16), DateAt(4)>>, <<NotADate, DateAt(16)>>, <<DateAt(4), NotADate>>,
    <<NotADate, NotADate>> }

InitAdjustedFlows ==
  /\ fn = "adjustedFlows"
  /\ \E cfs \in PageFlowLists, p \in PagePeriods :
       args = [cashflows |-> cfs, startDate |-> p[1], endDate |-> p[2]]

MaxHeaders == 3

\* column headers of an uploaded file: Value, Type, Asset Class, Date,
\* Amount, Beginning MV, Ending MV
HeaderChoices ==
  << <<"V", "a", "l", "u", "e">>,
     <<"T", "y", "p", "e">>,
     <<"A", "s", "s", "e", "t", " ", "C", "l", "a", "s", "s">>,
     <<"D", "a", "t", "e">>,
     <<"A", "m", "o", "u", "n", "t">>,
     <<"B", "e", "g", "i", "n", "n", "i", "n", "g", " ", "M", "V">>,
     <<"E", "n", "d", "i", "n", "g", " ", "M", "V">> >>

\* the header row of the cashflow template the page offers for download
TemplateHeaders ==
  << <<"T", "r", "a", "n", "s", "a", "c", "t", "i", "o", "n", " ", "D", "a", "t", "e">>,
     <<"T", "r", "a", "n", "s", "a", "c", "t", "i", "o", "n", " ", "T", "y", "p", "e">>,
     <<"A", "m", "o", "u", "n", "t">>,
     <<"A", "s", "s", "e", "t", " ", "C", "l", "a", "s", "s">>,
     <<"T", "r", "a", "n", "s", "a", "c", "t", "i", "o", "n", " ", "D", "e", "t", "a", "i", "l", "s">> >>

\* header rows without repeated columns
HeaderRows ==
  {hs \in SeqsUpTo(Range(HeaderChoices), MaxHeaders) :
     \A i, j \in 1..Len(hs) : i # j => hs[i] # hs[j]}

InitAutoMapColumns ==
  /\ fn = "autoMapColumns"
  /\ \E hs \in HeaderRows \cup {TemplateHeaders},
        m \in {ASSET_COLUMN_ALIASES, CASHFLOW_COLUMN_ALIASES} :
       args = [rawHeaders |-> hs, aliasMap |-> m]

MaxEdits == 3

\* what the user sets on the page: both dates, one or none; asset tables
\* that give a result, have no basis, hold no number; cashflow lists
PageDates ==
  { <<NotADate, NotADate>>, <<DateAt(0), NotADate>>, <<DateAt(0), DateAt(4)>>,
    <<DateAt(4), DateAt(4)>> }

PageAssets ==
  { <<>>,
    PortfolioAssets(<< <<Fin(4), Fin(8)>> >>),
    PortfolioAssets(<< <<Fin(4), Fin(8)>>, <<Fin(4), Zero>> >>),
    PortfolioAssets(<< <<Zero, Fin(8)>> >>),
    PortfolioAssets(<< <<NaN, Fin(4)>> >>) }

PageCashflows == { <<>>, <<PortfolioFlowChoices[1]>>, <<PortfolioFlowChoices[2]>> }

\* the page is mounted on the store as created
InitPerformancePage ==
  /\ fn = "PerformancePage"
  /\ args = StoreInitial

InitCallAI ==
  /\ fn \in AIServices
  /\ args \in [apiKey : ApiKeys]

Init ==
  /\ pc = "ready"
  /\ ret = NoValue
  /\ attempt = 0 /\ requests = 0 /\ waits = <<>> /\ response = NoValue
  /\ performanceResults = NoValue /\ edits = <<>>
  /\ \/ InitModifiedDietz
     \/ InitComputeCashflowWeights
     \/ InitAnnualize
     \/ InitComputePortfolioReturns
     \/ InitBrinsonFachler
     \/ InitCallAI
     \/ InitAdjustedFlows
     \/ InitAutoMapColumns
     \/ InitPerformancePage

CallModifiedDietz ==
  /\ pc = "ready" /\ fn = "modifiedDietz"
  /\ ret' = modifiedDietz(args.beginningValue, args.endingValue, args.cashflows,
                          args.startDate, args.endDate)
  /\ pc' = "done"
  /\ args' = [args EXCEPT !.cashflows = AfterFilter(@)]
  /\ UNCHANGED <<fn, aiVars, storeVars>>

CallComputeCashflowWeights ==
  /\ pc = "ready" /\ fn = "computeCashflowWeights"
  /\ ret' = computeCashflowWeights(args.cashflows, args.startDate, args.endDate)
  /\ pc' = "done"
  /\ args' = [args EXCEPT !.cashflows = AfterFilter(@)]
  /\ UNCHANGED <<fn, aiVars, storeVars>>

CallAnnualize ==
  /\ pc = "ready" /\ fn = "annualize"
  /\ ret' = annualize(args.r, args.start, args.end)
  /\ pc' = "done"
  /\ UNCHANGED <<fn, args, aiVars, storeVars>>

CallComputePortfolioReturns ==
  /\ pc = "ready" /\ fn = "computePortfolioReturns"
  /\ ret' = computePortfolioReturns(args.assets, args.cashflows, args.startDate, args.endDate)
  /\ pc' = "done"
  /\ args' = [args EXCEPT !.assets = AfterReduce(AfterMap(AfterReduce(@))),
                          !.cashflows = AfterMap(AfterFilter(@))]
  /\ UNCHANGED <<fn, aiVars, storeVars>>

CallBrinsonFachler ==
  /\ pc = "ready" /\ fn = "brinsonFachler"
  /\ ret' = Return(brinsonFachler(args.assets))
  /\ pc' = "done"
  /\ args' = [args EXCEPT !.assets = AfterMap(@)]
  /\ UNCHANGED <<fn, aiVars, storeVars>>

\* the useMemo callback of adjustedFlows
CallAdjustedFlows ==
  /\ pc = "ready" /\ fn = "adjustedFlows"
  /\ ret' = adjustedFlows(args.cashflows, args.startDate, args.endDate)
  /\ pc' = "done"
  /\ args' = [args EXCEPT !.cashflows = AfterMap(@)]
  /\ UNCHANGED <<fn, aiVars, storeVars>>

CallAutoMapColumns ==
  /\ pc = "ready" /\ fn = "autoMapColumns"
  /\ ret' = Return(autoMapColumns(args.rawHeaders, args.aliasMap))
  /\ pc' = "done"
  /\ args' = [args EXCEPT !.rawHeaders = AfterMap(@)]
  /\ UNCHANGED <<fn, aiVars, storeVars>>

\* The page after a change of the store: the memo results is computed anew
\* and the save hook runs.
Rerender ==
  /\ ret' = Results(args')
  /\ performanceResults' = Save(ret', performanceResults)
  /\ edits' = Append(edits, args')
  /\ UNCHANGED <<fn, pc, aiVars>>

SetDates ==
  /\ pc = "ready" /\ fn = "PerformancePage" /\ Len(edits) < MaxEdits
  /\ \E d \in PageDates : args' = [args EXCEPT !.startDate = d[1], !.endDate = d[2]]
  /\ Rerender

\* setAssets, addAsset, updateAsset, removeAsset
SetAssets ==
  /\ pc = "ready" /\ fn = "PerformancePage" /\ Len(edits) < MaxEdits
  /\ \E a \in PageAssets : args' = [args EXCEPT !.assets = a]
  /\ Rerender

SetCashflows ==
  /\ pc = "ready" /\ fn = "PerformancePage" /\ Len(edits) < MaxEdits
  /\ \E c \in PageCashflows : args' = [args EXCEPT !.cashflows = c]
  /\ Rerender

\* resetAll, and the page rendered on the emptied store
ResetAll ==
  /\ pc = "ready" /\ fn = "PerformancePage"
  /\ args' = StoreInitial
  /\ ret' = Results(args')
  /\ performanceResults' = Save(ret', NoValue)
  /\ edits' = <<>>
  /\ UNCHANGED <<fn, pc, aiVars>>

\* callClaude, callGemini: from the call to the first fetch, or to the
\* rejection for want of an API key
StartCall ==
  /\ pc = "ready" /\ fn \in AIServices
  /\ IF KeyConfigured(args.apiKey)
       THEN pc' = "fetch" /\ ret' = ret
       ELSE pc' = "done" /\ ret' = Throw(NotConfiguredMessage(fn))
  /\ attempt' = 0
  /\ UNCHANGED <<fn, args, requests, waits, response, storeVars>>

\* the fetch of iteration i is issued
SendRequest ==
  /\ pc = "fetch" /\ attempt < maxAttempts
  /\ requests' = requests + 1
  /\ pc' = "await"
  /\ UNCHANGED <<fn, args, ret, attempt, waits, response, storeVars>>

\* the request completes: the body of the try block runs to its return or
\* to the catch clause, which rethrows on the last attempt and sets the
\* timer otherwise
ReceiveResponse ==
  /\ pc = "await"
  /\ \E r \in Responses :
       /\ response' = r
       /\ IF ~AttemptThrows(r)
            THEN pc' = "done" /\ ret' = Return(ResponseText(r)) /\ waits' = waits
            ELSE IF attempt = maxAttempts - 1
              THEN pc' = "done" /\ ret' = Throw(AttemptError(r)) /\ waits' = waits
              ELSE pc' = "sleep" /\ ret' = ret /\ waits' = Append(waits, delays[attempt + 1])
  /\ UNCHANGED <<fn, args, attempt, requests, storeVars>>

\* the timer fires and the loop goes to its next iteration
TimerFires ==
  /\ pc = "sleep"
  /\ attempt' = attempt + 1
  /\ pc' = "fetch"
  /\ UNCHANGED <<fn, args, ret, requests, waits, response, storeVars>>

Next ==
  \/ CallModifiedDietz
  \/ CallComputeCashflowWeights
  \/ CallAnnualize
  \/ CallComputePortfolioReturns
  \/ CallBrinsonFachler
  \/ CallAdjustedFlows
  \/ CallAutoMapColumns
  \/ SetDates
  \/ SetAssets
  \/ SetCashflows
  \/ ResetAll
  \/ StartCall
  \/ SendRequest
  \/ ReceiveResponse
  \/ TimerFires

Spec == Init /\ [][Next]_vars

\* An async function goes on after each await once the awaited promise is
\* settled: the timers of setTimeout fire, and every request is taken to
\* complete (with a response or with an error).
FairSpec ==
  /\ Spec
  /\ WF_vars(StartCall) /\ WF_vars(SendRequest)
  /\ WF_vars(ReceiveResponse) /\ WF_vars(TimerFires)

-----------------------------------------------------------------------------
(* The claims' own arithmetic, on integers: money amounts and times of the *)
(* inputs above are whole numbers of units and ticks.                      *)

Done(f) == pc = "done" /\ fn = f

RECURSIVE SumInt(_)
SumInt(s) == IF s = <<>> THEN 0 ELSE s[1] + SumInt(Tail(s))

\* both dates are Date objects with a time value
ValidDates(startDate, endDate) ==
  /\ startDate.isDate /\ endDate.isDate
  /\ startDate.time.k = "fin" /\ endDate.time.k = "fin"

\* end - start in ticks, for valid dates
Span(startDate, endDate) == endDate.time.n - startDate.time.n

\* the cashflows retained for the period: dated in [start, end], finite amount
Retained(cashflows, startDate, endDate) ==
  SelectSeq(cashflows, LAMBDA cf :
    /\ cf.date.isDate /\ cf.date.time.k = "fin" /\ cf.amount.k = "fin"
    /\ startDate.time.n <= cf.date.time.n /\ cf.date.time.n <= endDate.time.n)

\* S: the unweighted sum of the retained amounts
RetainedSum(cashflows, startDate, endDate) ==
  SumInt(MapSeq(Retained(cashflows, startDate, endDate), LAMBDA cf : cf.amount.n))

\* clamp(x, 0, hi)
ClampInt(x, hi) == IF x < 0 THEN 0 ELSE IF x > hi THEN hi ELSE x

\* W x (end - start): the sum of clamp(end - date, 0, end - start) x amount
\* over the retained cashflows
RetainedWeightedSpan(cashflows, startDate, endDate) ==
  SumInt(MapSeq(Retained(cashflows, startDate, endDate),
                LAMBDA cf : ClampInt(endDate.time.n - cf.date.time.n,
                                     Span(startDate, endDate)) * cf.amount.n))

\* (beginningValue + W) x (end - start)
DenominatorSpan(beginningValue, cashflows, startDate, endDate) ==
  beginningValue.n * Span(startDate, endDate)
    + RetainedWeightedSpan(cashflows, startDate, endDate)

\* |beginningValue + W| < EPS
NearZero(beginningValue, cashflows, startDate, endDate) ==
  AbsInt(DenominatorSpan(beginningValue, cashflows, startDate, endDate))
    < EPS * Span(startDate, endDate)

\* (endingValue - beginningValue - S) / (beginningValue + W)
DietzFormula(beginningValue, endingValue, cashflows, startDate, endDate) ==
  Rat((endingValue.n - beginningValue.n - RetainedSum(cashflows, startDate, endDate))
        * Span(startDate, endDate),
      DenominatorSpan(beginningValue, cashflows, startDate, endDate))

-----------------------------------------------------------------------------
(* C1 *)

BFSumOfEffects(r) == Add(Add(r.totals.allocation, r.totals.selection), r.totals.interaction)

\* C1 as stated: for every non-empty input, whatever the weights sum to,
\* totals.allocation + totals.selection + totals.interaction equals
\* portfolioReturn - benchmarkReturn (= totals.activeReturn)
C1_AnyWeights ==
  (Done("brinsonFachler") /\ args.assets # Undefined /\ Len(args.assets) > 0) =>
    /\ BFSumOfEffects(ret.value) = Sub(ret.value.portfolioReturn, ret.value.benchmarkReturn)
    /\ BFSumOfEffects(ret.value) = ret.value.totals.activeReturn

\* C1 amended: for every non-empty input the three totals sum to
\* activeReturn - (totalPortfolioWeight - totalBenchmarkWeight) x benchmarkReturn,
\* with activeReturn = portfolioReturn - benchmarkReturn; so they sum to the
\* active return whenever the portfolio weights and the benchmark weights
\* sum to the same total (be it 1 or not)
C1_Decomposition ==
  (Done("brinsonFachler") /\ args.assets # Undefined /\ Len(args.assets) > 0) =>
    LET r == ret.value
    IN /\ r.totals.activeReturn = Sub(r.portfolioReturn, r.benchmarkReturn)
       /\ BFSumOfEffects(r) =
            Sub(r.totals.activeReturn,
                Mul(Sub(r.totalPortfolioWeight, r.totalBenchmarkWeight), r.benchmarkReturn))
       /\ (r.totalPortfolioWeight = r.totalBenchmarkWeight =>
             BFSumOfEffects(r) = r.totals.activeReturn)

\* two asset classes, weight sums equal but not 1, a non-zero active return
\* and a non-zero allocation total
C1_Witness ==
  /\ Done("brinsonFachler") /\ Len(args.assets) = 2
  /\ ret.value.totalPortfolioWeight = ret.value.totalBenchmarkWeight
  /\ ret.value.totalPortfolioWeight # One
  /\ ret.value.totals.activeReturn # Zero
  /\ ret.value.totals.allocation # Zero
  /\ BFSumOfEffects(ret.value) = ret.value.totals.activeReturn

-----------------------------------------------------------------------------
(* C2 *)

\* C2: for finite values, a period with end > start and a stable
\* denominator, modifiedDietz returns (endingValue - beginningValue - S) /
\* (beginningValue + W), S and W taken over the retained cashflows
C2_DietzFormula ==
  (/\ Done("modifiedDietz")
   /\ IsFinite(args.beginningValue) /\ IsFinite(args.endingValue)
   /\ ValidDates(args.startDate, args.endDate)
   /\ Span(args.startDate, args.endDate) > 0
   /\ ~NearZero(args.beginningValue, args.cashflows, args.startDate, args.endDate)) =>
    /\ ~ret.threw
    /\ ret.value = DietzFormula(args.beginningValue, args.endingValue, args.cashflows,
                                args.startDate, args.endDate)

\* a returned value that is not zero, from two retained cashflows whose
\* weighted sum is neither zero nor their plain sum
C2_Witness ==
  /\ Done("modifiedDietz") /\ ~ret.threw
  /\ ValidDates(args.startDate, args.endDate)
  /\ Len(args.cashflows) = 2
  /\ Len(Retained(args.cashflows, args.startDate, args.endDate)) = 2
  /\ RetainedSum(args.cashflows, args.startDate, args.endDate) # 0
  /\ RetainedWeightedSpan(args.cashflows, args.startDate, args.endDate)
       \notin {0, RetainedSum(args.cashflows, args.startDate, args.endDate)
                    * Span(args.startDate, args.endDate)}
  /\ ret.value # Zero

-----------------------------------------------------------------------------
(* computePortfolioReturns: what the claims C3..C7 speak of *)

\* the cashflows whose assetClass is the asset's name
Matching(asset, cashflows) == SelectSeq(cashflows, LAMBDA cf : cf.assetClass = asset.name)

PeriodOK == ValidDates(args.startDate, args.endDate) /\ Span(args.startDate, args.endDate) > 0

\* every asset's beginning value, resp. ending value, is a finite number
FiniteBeginnings == \A i \in 1..Len(args.assets) : args.assets[i].beginningValue.k = "fin"
FiniteEndings == \A i \in 1..Len(args.assets) : args.assets[i].endingValue.k = "fin"

\* the totals, for finite values
TotalBeginning == SumInt(MapSeq(args.assets, LAMBDA a : a.beginningValue.n))
TotalEnding == SumInt(MapSeq(args.assets, LAMBDA a : a.endingValue.n))

\* the asset's own Modified Dietz denominator is near zero
AssetNearZero(i) ==
  NearZero(args.assets[i].beginningValue, Matching(args.assets[i], args.cashflows),
           args.startDate, args.endDate)

\* the asset's own Modified Dietz return
AssetFormula(i) ==
  DietzFormula(args.assets[i].beginningValue, args.assets[i].endingValue,
               Matching(args.assets[i], args.cashflows), args.startDate, args.endDate)

PortfolioNearZero ==
  NearZero(Fin(TotalBeginning), args.cashflows, args.startDate, args.endDate)

\* beginning value exactly 0 and the matching cashflows absent or, whatever
\* their dates, of a signed sum within EPS of zero
ZeroBasisCase(i) ==
  LET m == Matching(args.assets[i], args.cashflows)
  IN /\ args.assets[i].beginningValue = Zero
     /\ \/ m = <<>>
        \/ AbsInt(SumInt(MapSeq(m, LAMBDA cf : cf.amount.n))) < EPS

\* exactly one asset, i, has a near-zero denominator; the others and the
\* portfolio aggregate are computable
OnlyAssetFailing(i) ==
  /\ Done("computePortfolioReturns") /\ PeriodOK
  /\ FiniteBeginnings /\ FiniteEndings
  /\ i \in 1..Len(args.assets)
  /\ AssetNearZero(i)
  /\ \A j \in 1..Len(args.assets) : j # i => ~AssetNearZero(j)
  /\ TotalBeginning > 0 /\ ~PortfolioNearZero

UnstableIssue(i) == args.assets[i].name \o ": " \o MsgUnstable

-----------------------------------------------------------------------------
(* C3 *)

\* C3 as stated: if exactly one asset has a near-zero denominator, the
\* call returns; the failing asset has periodReturn 0, every other asset
\* its own Modified Dietz return, and issues is exactly the one entry
\* "<assetName>: <failure message>" of the failing asset
C3_AnyFailingAsset ==
  Done("computePortfolioReturns") =>
    \A i \in 1..Len(args.assets) :
      OnlyAssetFailing(i) =>
        /\ ~ret.threw
        /\ ret.value.assetResults[i].periodReturn = Zero
        /\ \A j \in 1..Len(args.assets) :
             j # i => ret.value.assetResults[j].periodReturn = AssetFormula(j)
        /\ ret.value.issues = <<UnstableIssue(i)>>

\* C3 amended: in that situation the call returns and the failing asset has
\* periodReturn 0; every other asset has its own Modified Dietz return,
\* unless it is a zero-basis asset (beginning value 0, matching cashflows
\* absent or summing to within EPS of zero), which has 0; issues is exactly
\* the one entry naming the failing asset, unless the failing asset is a
\* zero-basis asset, and then issues is empty
C3_PartialFailure ==
  Done("computePortfolioReturns") =>
    \A i \in 1..Len(args.assets) :
      OnlyAssetFailing(i) =>
        /\ ~ret.threw
        /\ Len(ret.value.assetResults) = Len(args.assets)
        /\ ret.value.assetResults[i].periodReturn = Zero
        /\ \A j \in 1..Len(args.assets) :
             j # i => ret.value.assetResults[j].periodReturn =
                        IF ZeroBasisCase(j) THEN Zero ELSE AssetFormula(j)
        /\ ret.value.issues = IF ZeroBasisCase(i) THEN <<>> ELSE <<UnstableIssue(i)>>

\* the second of two assets fails and is no zero-basis asset, the first has
\* a return that is not zero, and one issue is reported
C3_Witness ==
  /\ OnlyAssetFailing(2) /\ ~ZeroBasisCase(2) /\ ~ZeroBasisCase(1)
  /\ ~ret.threw
  /\ ret.value.assetResults[1].periodReturn # Zero
  /\ ret.value.assetResults[2].periodReturn = Zero
  /\ ret.value.issues = <<UnstableIssue(2)>>

-----------------------------------------------------------------------------
(* C4 *)

\* C4: whenever the sum of the beginning values is <= 0 (an empty list and
\* a negative total included) the call fails with the zero-total-basis
\* error and returns nothing, whatever the dates and the cashflows
C4_ZeroTotalBasis ==
  (Done("computePortfolioReturns") /\ FiniteBeginnings /\ TotalBeginning <= 0) =>
    /\ ret.threw
    /\ ret.error = MsgTotalBV
    /\ ret.value = NoValue

\* two assets whose beginning values cancel, with dates that are no Date
\* objects: the zero-total-basis error is the one reported
C4_Witness ==
  /\ Done("computePortfolioReturns") /\ FiniteBeginnings
  /\ Len(args.assets) = 2 /\ TotalBeginning = 0
  /\ ~args.startDate.isDate
  /\ ret.threw /\ ret.error = MsgTotalBV

-----------------------------------------------------------------------------
(* C5 *)

NoAssetFails == \A j \in 1..Len(args.assets) : ZeroBasisCase(j) \/ ~AssetNearZero(j)

\* C5: if the portfolio-level Modified Dietz call fails, the call fails as
\* a whole, with no per-asset results and no issues list, even when every
\* per-asset computation succeeded; for a near-zero portfolio denominator
\* the error is the unstable-denominator error under the portfolio prefix
C5_PortfolioFailureFatal ==
  /\ (Done("computePortfolioReturns")
        /\ PortfolioDietz(args.assets, args.cashflows, args.startDate, args.endDate).threw) =>
       (ret.threw /\ ret.value = NoValue)
  /\ (Done("computePortfolioReturns") /\ PeriodOK /\ FiniteBeginnings /\ FiniteEndings
        /\ TotalBeginning > 0 /\ PortfolioNearZero) =>
       (ret.threw /\ ret.error = MsgPortfolioPrefix \o MsgUnstable)

\* every asset is computable, the portfolio denominator is near zero
C5_Witness ==
  /\ Done("computePortfolioReturns") /\ PeriodOK /\ FiniteBeginnings /\ FiniteEndings
  /\ TotalBeginning > 0 /\ Len(args.assets) = 2
  /\ NoAssetFails /\ PortfolioNearZero
  /\ ret.threw /\ ret.error = MsgPortfolioPrefix \o MsgUnstable

-----------------------------------------------------------------------------
(* C6 *)

\* C6: in every returned result every periodReturn and every
\* annualizedReturn, of each asset and of the portfolio, is a finite number
\* (stated here for the calls with valid dates and end > start, where the
\* period return itself is computed as specified)
C6_ResultsFinite ==
  (Done("computePortfolioReturns") /\ ~ret.threw /\ PeriodOK) =>
    /\ \A i \in 1..Len(ret.value.assetResults) :
         /\ IsFinite(ret.value.assetResults[i].periodReturn)
         /\ ret.value.assetResults[i].annualizedReturn.k = "fin"
    /\ IsFinite(ret.value.portfolio.periodReturn)
    /\ ret.value.portfolio.annualizedReturn.k = "fin"

-----------------------------------------------------------------------------
(* C7 *)

AssetIssueTexts(i) ==
  {args.assets[i].name \o ": " \o m : m \in {MsgNonFinite, MsgDates, MsgPeriod, MsgUnstable}}

\* C7: in every returned result a zero-basis asset has periodReturn 0 and
\* no issue of its own, whatever its ending value and the dates of its
\* cashflows
C7_ZeroBasis ==
  (Done("computePortfolioReturns") /\ ~ret.threw) =>
    \A i \in 1..Len(args.assets) :
      ZeroBasisCase(i) =>
        /\ ret.value.assetResults[i].periodReturn = Zero
        /\ \A k \in 1..Len(ret.value.issues) : ret.value.issues[k] \notin AssetIssueTexts(i)

\* a zero-basis asset with an ending value and two matching cashflows that
\* cancel, for which the Modified Dietz formula would not give 0
C7_Witness ==
  /\ Done("computePortfolioReturns") /\ ~ret.threw /\ PeriodOK
  /\ Len(args.assets) = 2 /\ ZeroBasisCase(2)
  /\ Len(Matching(args.assets[2], args.cashflows)) = 2
  /\ args.assets[2].endingValue # Zero
  /\ ~AssetNearZero(2) /\ AssetFormula(2) # Zero
  /\ ret.value.assetResults[2].periodReturn = Zero
  /\ ret.value.issues = <<>>

-----------------------------------------------------------------------------
(* C8 *)

\* C8: modifiedDietz fails whenever startDate or endDate is no Date object
\* or is a Date object with an invalid time value
C8_InvalidDatesRejected ==
  (Done("modifiedDietz") /\ ~ValidDates(args.startDate, args.endDate)) => ret.threw

-----------------------------------------------------------------------------
(* C9 *)

-----------------------------------------------------------------------------
(* C10 *)

\* C10: for finite values and a period with end > start, modifiedDietz
\* fails with the unstable-denominator error whenever beginningValue + W is
\* within EPS of zero, and returns a value only when it is not
C10_UnstableDenominator ==
  (/\ Done("modifiedDietz")
   /\ IsFinite(args.beginningValue) /\ IsFinite(args.endingValue)
   /\ ValidDates(args.startDate, args.endDate)
   /\ Span(args.startDate, args.endDate) > 0) =>
    /\ NearZero(args.beginningValue, args.cashflows, args.startDate, args.endDate) =>
         (ret.threw /\ ret.error = MsgUnstable /\ ret.value = NoValue)
    /\ ~ret.threw =>
         ~NearZero(args.beginningValue, args.cashflows, args.startDate, args.endDate)

\* a denominator that is near zero without being zero, the cashflows
\* contributing to it
C10_Witness ==
  /\ Done("modifiedDietz")
  /\ IsFinite(args.beginningValue) /\ IsFinite(args.endingValue)
  /\ ValidDates(args.startDate, args.endDate) /\ Span(args.startDate, args.endDate) > 0
  /\ NearZero(args.beginningValue, args.cashflows, args.startDate, args.endDate)
  /\ DenominatorSpan(args.beginningValue, args.cashflows, args.startDate, args.endDate) # 0
  /\ RetainedWeightedSpan(args.cashflows, args.startDate, args.endDate) # 0
  /\ ret.threw /\ ret.error = MsgUnstable

-----------------------------------------------------------------------------
(* C11 *)

\* some asset has a beginning or an ending value that is no finite number
NonFiniteAsset == ~(FiniteBeginnings /\ FiniteEndings)

NonPositivePeriod ==
  ValidDates(args.startDate, args.endDate) /\ Span(args.startDate, args.endDate) <= 0

\* C11: if some asset has a non-finite beginning or ending value, or if
\* end - start <= 0, computePortfolioReturns fails as a whole and returns
\* no result (so none with the condition as a mere entry of issues); with
\* finite beginning values of a positive total the error is the
\* portfolio-level one: the finite-values error for a non-finite ending
\* value, the invalid-period error for finite values and end - start <= 0
C11_FatalConditions ==
  Done("computePortfolioReturns") =>
    /\ (NonFiniteAsset \/ NonPositivePeriod) => (ret.threw /\ ret.value = NoValue)
    /\ (FiniteBeginnings /\ TotalBeginning > 0 /\ ~FiniteEndings /\ args.startDate.isDate) =>
         ret.error = MsgPortfolioPrefix \o MsgNonFinite
    /\ (FiniteBeginnings /\ TotalBeginning > 0 /\ FiniteEndings /\ NonPositivePeriod) =>
         ret.error = MsgPortfolioPrefix \o MsgPeriod

\* two assets over a period with end > start: the first is computable, the
\* second has an infinite ending value, and the call fails as a whole
C11_Witness ==
  /\ Done("computePortfolioReturns") /\ PeriodOK
  /\ Len(args.assets) = 2
  /\ FiniteBeginnings /\ TotalBeginning > 0
  /\ args.assets[1].endingValue.k = "fin" /\ ~AssetNearZero(1)
  /\ args.assets[2].endingValue = PosInf
  /\ ret.threw /\ ret.error = MsgPortfolioPrefix \o MsgNonFinite

-----------------------------------------------------------------------------
(* C12 *)

\* the cashflows dated inside [start, end], whatever their amounts
DatedInside(cashflows, startDate, endDate) ==
  SelectSeq(cashflows, LAMBDA cf :
    /\ cf.date.isDate /\ cf.date.time.k = "fin"
    /\ startDate.time.n <= cf.date.time.n /\ cf.date.time.n <= endDate.time.n)

\* a call with finite values over a period with end > start in which
\* endingValue - beginningValue equals the sum of the cashflows dated
\* inside the period
BreakEven ==
  /\ Done("modifiedDietz")
  /\ IsFinite(args.beginningValue) /\ IsFinite(args.endingValue)
  /\ ValidDates(args.startDate, args.endDate) /\ Span(args.startDate, args.endDate) > 0
  /\ LET inside == DatedInside(args.cashflows, args.startDate, args.endDate)
     IN /\ \A k \in 1..Len(inside) : inside[k].amount.k = "fin"
        /\ args.endingValue.n - args.beginningValue.n
             = SumInt(MapSeq(inside, LAMBDA cf : cf.amount.n))

\* the break-even example: its values and one outflow dated in the period
BreakEvenExample ==
  /\ BreakEven
  /\ args.beginningValue = DietzBreakEven.beginningValue
  /\ args.endingValue = DietzBreakEven.endingValue
  /\ Len(args.cashflows) = 1 /\ args.cashflows[1].amount = DietzBreakEven.amount

\* C12 as stated: whenever endingValue - beginningValue equals the sum of
\* the cashflows dated inside the period, modifiedDietz returns exactly 0
C12_BreakEvenAlways == BreakEven => (~ret.threw /\ ret.value = Zero)

\* C12 amended: in that situation modifiedDietz returns exactly 0 provided
\* beginningValue + W is not within EPS of zero (otherwise it fails with the
\* unstable-denominator error), wherever in [start, end] the cashflows are
\* dated; the break-even example (1000, 800, one outflow of -200) returns 0
\* for every date of the outflow in the period, and never fails
C12_BreakEven ==
  /\ BreakEven =>
       IF NearZero(args.beginningValue, args.cashflows, args.startDate, args.endDate)
       THEN ret.threw /\ ret.error = MsgUnstable
       ELSE ~ret.threw /\ ret.value = Zero
  /\ BreakEvenExample => (~ret.threw /\ ret.value = Zero)

\* the example with the outflow dated at the start of the period, where it
\* has weight 1 and the denominator is the ending value
C12_Witness ==
  /\ BreakEvenExample
  /\ args.cashflows[1].date = args.startDate
  /\ DenominatorSpan(args.beginningValue, args.cashflows, args.startDate, args.endDate)
       = args.endingValue.n * Span(args.startDate, args.endDate)
  /\ ~ret.threw /\ ret.value = Zero

-----------------------------------------------------------------------------
(* C13 *)

\* a call with finite values, |beginningValue| >= EPS and a period with
\* end > start, in which no cashflow is dated inside [start, end]
NoFlowInside ==
  /\ Done("modifiedDietz")
  /\ IsFinite(args.beginningValue) /\ IsFinite(args.endingValue)
  /\ AbsInt(args.beginningValue.n) >= EPS
  /\ ValidDates(args.startDate, args.endDate) /\ Span(args.startDate, args.endDate) > 0
  /\ DatedInside(args.cashflows, args.startDate, args.endDate) = <<>>

\* C13: for finite values, a beginning value not within EPS of zero and a
\* period with end > start, modifiedDietz called with an empty cashflow
\* list, or with one in which no cashflow is dated inside [start, end],
\* returns exactly (endingValue - beginningValue) / beginningValue
C13_NoCashflows ==
  NoFlowInside =>
    /\ ~ret.threw
    /\ ret.value = Rat(args.endingValue.n - args.beginningValue.n, args.beginningValue.n)

\* two cashflows with finite amounts, dated before the start or after the
\* end, and a return that is not zero
C13_Witness ==
  /\ NoFlowInside
  /\ Len(args.cashflows) = 2
  /\ \A k \in 1..2 : /\ args.cashflows[k].date.isDate
                     /\ args.cashflows[k].amount.k = "fin"
  /\ \E k \in 1..2 : args.cashflows[k].date.time.n > args.endDate.time.n
  /\ ~ret.threw /\ ret.value # Zero

-----------------------------------------------------------------------------
(* C14 *)

\* a call of computeCashflowWeights over a period with end > start
WeightsCall ==
  /\ Done("computeCashflowWeights")
  /\ ValidDates(args.startDate, args.endDate) /\ Span(args.startDate, args.endDate) > 0

\* the cashflow an output entry was made from
EntryFlow(e) == [date |-> e.date, amount |-> e.amount]

\* C14: over a period with end > start computeCashflowWeights fails on no
\* cashflow list, and its output consists of exactly the cashflows that are
\* dated in [start, end], boundaries included, and have a finite amount, in
\* the order of the input
C14_RetainedInOrder ==
  WeightsCall =>
    /\ ~ret.threw
    /\ MapSeq(ret.value, EntryFlow) = Retained(args.cashflows, args.startDate, args.endDate)

\* two cashflows are retained, the first dated at the end of the period and
\* the second at its start: the output keeps them in that order
C14_Witness ==
  /\ WeightsCall
  /\ Len(args.cashflows) = 2
  /\ args.cashflows[1].date = args.endDate /\ args.cashflows[2].date = args.startDate
  /\ ~ret.threw /\ Len(ret.value) = 2
  /\ ret.value[1].date = args.endDate /\ ret.value[2].date = args.startDate

-----------------------------------------------------------------------------
(* C15 *)

\* C15: every entry output by computeCashflowWeights over a period with
\* end > start has weight = (end - date) / (end - start), which lies in
\* [0, 1] and is 1 for a cashflow dated at start and 0 for one dated at
\* end, and weightedAmount = weight x amount; over any other period the
\* output, if there is one, has no entry
C15_Weights ==
  /\ WeightsCall =>
       \A k \in 1..Len(ret.value) :
         LET e == ret.value[k]
         IN /\ e.weight = Rat(args.endDate.time.n - e.date.time.n,
                              Span(args.startDate, args.endDate))
            /\ e.weight.k = "fin" /\ 0 <= e.weight.n /\ e.weight.n <= e.weight.d
            /\ e.date = args.startDate => e.weight = One
            /\ e.date = args.endDate => e.weight = Zero
            /\ e.weightedAmount = Rat(e.weight.n * e.amount.n, e.weight.d)
  /\ (Done("computeCashflowWeights") /\ ~WeightsCall /\ ~ret.threw) => ret.value = <<>>

\* two entries: one dated at start with weight 1, one strictly inside the
\* period with a weight strictly between 0 and 1
C15_Witness ==
  /\ WeightsCall
  /\ Len(ret.value) = 2
  /\ ret.value[1].date = args.startDate /\ ret.value[1].weight = One
  /\ ret.value[2].weight \notin {Zero, One}
  /\ ret.value[2].weightedAmount \notin {Zero, ret.value[2].amount}

-----------------------------------------------------------------------------
(* C16 *)

\* what computeCashflowWeights outputs on the cashflows and the period of
\* a call of modifiedDietz
WeightsOutput == computeCashflowWeights(args.cashflows, args.startDate, args.endDate)

\* beginningValue + the sum of the weightedAmount fields of that output
DenominatorFromWeights ==
  Add(args.beginningValue, SumSeq(MapSeq(WeightsOutput.value, LAMBDA e : e.weightedAmount)))

\* endingValue - beginningValue - the sum of the amount fields of that output
NumeratorFromWeights ==
  Sub(Sub(args.endingValue, args.beginningValue),
      SumSeq(MapSeq(WeightsOutput.value, LAMBDA e : e.amount)))

\* C16: for every cashflow list and every period with end > start,
\* modifiedDietz's denominator is beginningValue plus the sum of the
\* weightedAmount fields that computeCashflowWeights outputs on the same
\* list and period, and its numerator is endingValue - beginningValue
\* minus the sum of the amount fields of that output; so for finite values
\* modifiedDietz returns the quotient of the two, or fails when the former
\* is within EPS of zero
C16_SameFilterAndWeights ==
  (/\ Done("modifiedDietz")
   /\ ValidDates(args.startDate, args.endDate)
   /\ Span(args.startDate, args.endDate) > 0) =>
    LET validFlows == ValidFlows(args.cashflows, args.startDate, args.endDate)
    IN /\ ~WeightsOutput.threw
       /\ Denominator(args.beginningValue, validFlows, args.startDate, args.endDate)
            = DenominatorFromWeights
       /\ Numerator(args.beginningValue, args.endingValue, validFlows) = NumeratorFromWeights
       /\ (IsFinite(args.beginningValue) /\ IsFinite(args.endingValue)) =>
            ret = IF Lt(Abs(DenominatorFromWeights), Fin(EPS)) THEN Throw(MsgUnstable)
                  ELSE Return(Div(NumeratorFromWeights, DenominatorFromWeights))

\* a list of which one cashflow is retained, with a weight strictly between
\* 0 and 1, and one is not; modifiedDietz returns a value
C16_Witness ==
  /\ Done("modifiedDietz")
  /\ ValidDates(args.startDate, args.endDate) /\ Span(args.startDate, args.endDate) > 0
  /\ Len(args.cashflows) = 2
  /\ Len(WeightsOutput.value) = 1
  /\ WeightsOutput.value[1].weight \notin {Zero, One}
  /\ ~ret.threw /\ ret.value = Div(NumeratorFromWeights, DenominatorFromWeights)

-----------------------------------------------------------------------------
(* C17 *)

\* the cashflows whose assetClass is the name of some asset
MatchingAny ==
  SelectSeq(args.cashflows, LAMBDA cf :
    \E i \in 1..Len(args.assets) : cf.assetClass = args.assets[i].name)

\* C17: in every returned result portfolio.beginningValue and
\* portfolio.endingValue are the sums of the assets' beginning and ending
\* values; over a period with end > start portfolio.periodReturn is the
\* Modified Dietz return of the two sums over all cashflows of the input,
\* whatever their assetClass, and the return of an asset that is computed
\* by the formula (no zero-basis asset, no failure) is taken over the
\* cashflows whose assetClass is its name; the example gives 0.12, 0.01
\* and (610500 - 550000) / 550000 = 0.11
C17_Aggregation ==
  (Done("computePortfolioReturns") /\ ~ret.threw) =>
    /\ FiniteBeginnings /\ FiniteEndings
    /\ ret.value.portfolio.beginningValue = Fin(TotalBeginning)
    /\ ret.value.portfolio.endingValue = Fin(TotalEnding)
    /\ PeriodOK =>
         /\ ~PortfolioNearZero
         /\ ret.value.portfolio.periodReturn =
              DietzFormula(Fin(TotalBeginning), Fin(TotalEnding), args.cashflows,
                           args.startDate, args.endDate)
         /\ \A i \in 1..Len(args.assets) :
              (~ZeroBasisCase(i) /\ ~AssetNearZero(i)) =>
                ret.value.assetResults[i].periodReturn = AssetFormula(i)
         /\ (args.assets = PortfolioExample /\ args.cashflows = <<>>) =>
              /\ ret.value.assetResults[1].periodReturn = Rat(12, 100)
              /\ ret.value.assetResults[2].periodReturn = Rat(1, 100)
              /\ ret.value.portfolio.periodReturn = Rat(610500 - 550000, 550000)

\* a returned result for two assets and two retained cashflows, one of
\* the first asset and one of no asset: the portfolio return differs from
\* the return over the matching cashflows alone, and the first asset's
\* return is not zero
C17_Witness ==
  /\ Done("computePortfolioReturns") /\ ~ret.threw /\ PeriodOK
  /\ Len(args.assets) = 2 /\ Len(args.cashflows) = 2
  /\ Len(Retained(args.cashflows, args.startDate, args.endDate)) = 2
  /\ Len(MatchingAny) = 1 /\ Len(Matching(args.assets[1], args.cashflows)) = 1
  /\ ret.value.portfolio.periodReturn #
       DietzFormula(Fin(TotalBeginning), Fin(TotalEnding), MatchingAny,
                    args.startDate, args.endDate)
  /\ ~ZeroBasisCase(1) /\ ~AssetNearZero(1)
  /\ ret.value.assetResults[1].periodReturn = AssetFormula(1)
  /\ ret.value.assetResults[1].periodReturn # Zero

-----------------------------------------------------------------------------
(* C18 *)

\* the asset's own Modified Dietz computation fails: over a period with
\* end > start it is no zero-basis asset and its denominator is near zero
AssetFails(i) == PeriodOK /\ ~ZeroBasisCase(i) /\ AssetNearZero(i)

\* C18: every returned result has one AssetResult per input asset, in
\* input order (same name and values), with weight = beginningValue / sum
\* of the beginning values and contribution = weight x periodReturn; an
\* asset whose computation failed has periodReturn 0, contribution 0 and
\* still its weight
C18_AssetResults ==
  (Done("computePortfolioReturns") /\ ~ret.threw) =>
    /\ Len(ret.value.assetResults) = Len(args.assets)
    /\ \A i \in 1..Len(args.assets) :
         LET a == args.assets[i]
             res == ret.value.assetResults[i]
         IN /\ res.name = a.name
            /\ res.beginningValue = a.beginningValue /\ res.endingValue = a.endingValue
            /\ res.weight = Rat(a.beginningValue.n, TotalBeginning)
            /\ res.periodReturn.k = "fin"
            /\ res.contribution = Rat(res.weight.n * res.periodReturn.n,
                                      res.weight.d * res.periodReturn.d)
            /\ AssetFails(i) => (res.periodReturn = Zero /\ res.contribution = Zero)

\* two assets: the first has a contribution that is not zero and is not
\* its return, the second fails and keeps a weight that is not zero
C18_Witness ==
  /\ Done("computePortfolioReturns") /\ ~ret.threw
  /\ Len(args.assets) = 2
  /\ ret.value.assetResults[1].contribution
       \notin {Zero, ret.value.assetResults[1].periodReturn}
  /\ AssetFails(2)
  /\ ret.value.assetResults[2].weight # Zero
  /\ ret.value.assetResults[2].contribution = Zero
  /\ ret.value.issues = <<UnstableIssue(2)>>

-----------------------------------------------------------------------------
(* annualize: what the claims C19, C20 speak of *)

\* a call of annualize with Date objects that carry a time value
AnnualizeCall ==
  Done("annualize") /\ ValidDates(args.start, args.end)

\* the period return is a finite number
FiniteReturn == args.r.k \in {"fin", "tiny"}

\* (end - start) / msPerDay rounded to the nearest whole day, halves up
RoundedDays == (2 * Span(args.start, args.end) + msPerDay) \div (2 * msPerDay)

RECURSIVE IntPower(_, _)
IntPower(x, e) == IF e = 0 THEN 1 ELSE x * IntPower(x, e - 1)

\* the number a returned finite value denotes, base^(365/days) - 1, when
\* the exponent is a whole number
AnnualizedValue(v) ==
  LET e == DaysPerYear \div v.days
  IN Rat(IntPower(v.base.n, e) - IntPower(v.base.d, e), IntPower(v.base.d, e))

-----------------------------------------------------------------------------
(* C19 *)

\* a call with a finite period return and end exactly 365 days after start
FullYear ==
  /\ AnnualizeCall /\ FiniteReturn
  /\ Span(args.start, args.end) = DaysPerYear * msPerDay

-----------------------------------------------------------------------------
(* C20 *)

\* C20 as stated: annualize never throws
C20_NeverThrows == Done("annualize") => ~ret.threw

\* C20 amended: called with Date objects, annualize never throws; it
\* returns NaN when the period return is not finite (whatever start and end
\* are), when days <= 0, days being (end - start) rounded to the nearest
\* whole day (so also for a positive span shorter than half a day), and
\* when 1 + r is negative and 365 / days is no whole number; called with a
\* finite period return and a start or end that is no Date object it
\* throws a TypeError
C20_NaNNotThrown ==
  Done("annualize") =>
    /\ (args.start.isDate /\ args.end.isDate) => ~ret.threw
    /\ ~FiniteReturn => (~ret.threw /\ ret.value.k = "nan")
    /\ (FiniteReturn /\ ~(args.start.isDate /\ args.end.isDate)) =>
         (ret.threw /\ ret.error = MsgTypeError)
    /\ (AnnualizeCall /\ FiniteReturn) =>
         /\ RoundedDays <= 0 => ret.value.k = "nan"
         /\ (0 < Span(args.start, args.end) /\ 2 * Span(args.start, args.end) < msPerDay) =>
              ret.value.k = "nan"
         /\ (/\ RoundedDays > 0 /\ DaysPerYear % RoundedDays # 0
             /\ args.r.k = "fin" /\ args.r.n < -args.r.d) =>
              ret.value.k = "nan"
         /\ ret.value.k # "nan" => (RoundedDays > 0 /\ ret.value.days = RoundedDays)

\* a positive span shorter than half a day and a finite return: NaN is
\* returned, nothing is thrown
C20_Witness ==
  /\ AnnualizeCall /\ FiniteReturn
  /\ 0 < Span(args.start, args.end) /\ 2 * Span(args.start, args.end) < msPerDay
  /\ ~ret.threw /\ ret.value.k = "nan"

-----------------------------------------------------------------------------
(* C21 *)

\* a call with a single asset class whose two weights are equal
SingleEqualWeights ==
  /\ Done("brinsonFachler") /\ args.assets # Undefined /\ Len(args.assets) = 1
  /\ args.assets[1].portfolioWeight = args.assets[1].benchmarkWeight

\* weight x (portfolioReturn - benchmarkReturn) of the single asset class
SingleSelection ==
  LET a == args.assets[1]
  IN Rat(a.benchmarkWeight.n * (a.portfolioReturn.n * a.benchmarkReturn.d
                                  - a.benchmarkReturn.n * a.portfolioReturn.d),
         a.benchmarkWeight.d * a.portfolioReturn.d * a.benchmarkReturn.d)

\* C21: for a single asset class with portfolio weight = benchmark weight,
\* allocation and interaction are 0, in the row and in the totals, and
\* selection = activeReturn = weight x (portfolioReturn - benchmarkReturn)
C21_SingleAsset ==
  SingleEqualWeights =>
    LET r == ret.value
    IN /\ Len(r.attribution) = 1
       /\ r.attribution[1].allocation = Zero /\ r.totals.allocation = Zero
       /\ r.attribution[1].interaction = Zero /\ r.totals.interaction = Zero
       /\ r.attribution[1].selection = SingleSelection
       /\ r.totals.selection = SingleSelection
       /\ r.totals.activeReturn = SingleSelection

\* a weight other than 1, so that the class's benchmark return differs from
\* the total benchmark return, and a selection effect that is not zero
C21_Witness ==
  /\ SingleEqualWeights
  /\ args.assets[1].benchmarkWeight \notin {Zero, One}
  /\ args.assets[1].benchmarkReturn # ret.value.benchmarkReturn
  /\ ret.value.totals.selection # Zero
  /\ ret.value.totals.selection = ret.value.totals.activeReturn
  /\ ret.value.totals.allocation = Zero

-----------------------------------------------------------------------------
(* C22 *)

EffectTypes == <<"Asset Allocation", "Stock Selection", "Interaction">>

\* the 3N effect values of a result, each with its asset and its type, in
\* the order of the rows and, within a row, allocation, selection,
\* interaction
EffectOf(r, k) ==
  LET row == r.attribution[((k - 1) \div 3) + 1]
      t == ((k - 1) % 3) + 1
  IN [name |-> row.name,
      value |-> IF t = 1 THEN row.allocation ELSE IF t = 2 THEN row.selection
                ELSE row.interaction,
      type |-> EffectTypes[t]]

\* x <= y and x < y for finite x, y
RatLeq(x, y) == x.n * y.d <= y.n * x.d
RatLess(x, y) == x.n * y.d < y.n * x.d

\* C22: for a non-empty input the contributor sentence is in the insight
\* if and only if some of the 3N effect values is > 0, and it then names an
\* (asset, type) pair whose value is the maximum of all 3N values (the
\* first such pair in the order above); the detractor sentence is in the
\* insight if and only if some value is < 0, and it then names a pair whose
\* value is the minimum of all 3N values (the first such pair)
C22_InsightExtremes ==
  (Done("brinsonFachler") /\ args.assets # Undefined /\ Len(args.assets) > 0) =>
    LET r == ret.value
        K == 1..(3 * Len(r.attribution))
    IN /\ Len(r.attribution) = Len(args.assets)
       /\ r.insight.contributor # <<>> <=> \E k \in K : EffectOf(r, k).value.n > 0
       /\ r.insight.contributor # <<>> =>
            \E k \in K :
              /\ r.insight.contributor = <<EffectOf(r, k)>>
              /\ \A j \in K : RatLeq(EffectOf(r, j).value, EffectOf(r, k).value)
              /\ \A j \in K : j < k => RatLess(EffectOf(r, j).value, EffectOf(r, k).value)
       /\ r.insight.detractor # <<>> <=> \E k \in K : EffectOf(r, k).value.n < 0
       /\ r.insight.detractor # <<>> =>
            \E k \in K :
              /\ r.insight.detractor = <<EffectOf(r, k)>>
              /\ \A j \in K : RatLeq(EffectOf(r, k).value, EffectOf(r, j).value)
              /\ \A j \in K : j < k => RatLess(EffectOf(r, k).value, EffectOf(r, j).value)

\* two asset classes: the top contributor is an effect of the second class
\* that is no allocation effect and exceeds every allocation effect; the
\* detractor is an effect of the first class
C22_Witness ==
  /\ Done("brinsonFachler") /\ Len(args.assets) = 2
  /\ ret.value.insight.contributor # <<>> /\ ret.value.insight.detractor # <<>>
  /\ ret.value.insight.contributor[1].name = ret.value.attribution[2].name
  /\ ret.value.insight.contributor[1].type # "Asset Allocation"
  /\ \A i \in 1..2 : RatLess(ret.value.attribution[i].allocation,
                             ret.value.insight.contributor[1].value)
  /\ ret.value.insight.detractor[1].name = ret.value.attribution[1].name

-----------------------------------------------------------------------------
(* C23 *)

\* C23: brinsonFachler called with an empty list, or with no list, does
\* not fail: it returns an empty attribution, the four totals 0,
\* portfolioReturn 0, benchmarkReturn 0, both weight sums 0 and the insight
\* 'No data to analyze.' with no contributor and no detractor sentence
C23_NoData ==
  (Done("brinsonFachler") /\ (args.assets = Undefined \/ args.assets = <<>>)) =>
    /\ ~ret.threw
    /\ ret.value.attribution = <<>>
    /\ ret.value.totals = [allocation |-> Zero, selection |-> Zero, interaction |-> Zero,
                           activeReturn |-> Zero]
    /\ ret.value.portfolioReturn = Zero /\ ret.value.benchmarkReturn = Zero
    /\ ret.value.totalPortfolioWeight = Zero /\ ret.value.totalBenchmarkWeight = Zero
    /\ ret.value.insight.text = "No data to analyze."
    /\ ret.value.insight.contributor = <<>> /\ ret.value.insight.detractor = <<>>

\* the call with no list has returned the zero result
C23_Witness ==
  /\ Done("brinsonFachler") /\ args.assets = Undefined
  /\ ~ret.threw
  /\ ret.value.attribution = <<>>
  /\ ret.value.insight.text = "No data to analyze."

-----------------------------------------------------------------------------
(* C24 *)

-----------------------------------------------------------------------------
(* C25 *)

AICall == fn \in AIServices

\* the waits after the first k failed attempts: 1, 2, 4, 8, 16 seconds
RECURSIVE ExpectedWaits(_)
ExpectedWaits(k) ==
  IF k = 0 THEN <<>> ELSE Append(ExpectedWaits(k - 1), 1000 * IntPower(2, k - 1))

\* the last attempt failed in one of the ways the statement names: network
\* error, non-OK status, unreadable body
NamedFailure(r) == ~r.reached \/ ~r.ok \/ r.body = "unparseable"

\* the last attempt failed: one of the named ways, or a body that is the
\* JSON value null
FailedAttempt(r) == NamedFailure(r) \/ r.body = "null"

Resolved == pc = "done" /\ ~ret.threw

Rejected == pc = "done" /\ ret.threw

\* the number of attempts that have failed so far
Failures ==
  IF pc = "await" \/ Resolved THEN requests - 1 ELSE requests

\* the safety part of C25, for a call with a configured key
C25_Bounded ==
  (AICall /\ KeyConfigured(args.apiKey) /\ pc # "ready") =>
    /\ requests <= 6
    /\ waits = ExpectedWaits(IF Failures < 5 THEN Failures ELSE 5)
    /\ (pc = "sleep" => FailedAttempt(response) /\ requests <= 5)
    /\ (Resolved => /\ ~FailedAttempt(response)
                    /\ ret.value = (IF response.body = "text" THEN response.text ELSE ""))
    /\ (Rejected => /\ requests = 6 /\ Len(waits) = 5
                    /\ FailedAttempt(response)
                    /\ ret.error = AttemptError(response))

\* the statement of C25 read with its three kinds of failure only: once a
\* response has come that is OK and whose body is readable, the call has
\* resolved
C25_ResolvesAtFirstReadable ==
  (AICall /\ response # NoValue /\ pc # "await" /\ ~NamedFailure(response)) => Resolved

\* C25: a call of callClaude or callGemini with a configured key issues at
\* most 6 requests; after the i-th failed attempt (network error, non-OK
\* status, unreadable body, or a body that is the JSON value null), i = 1..5,
\* it waits 1, 2, 4, 8, 16 seconds; it resolves with the text (the empty
\* string if there is none) of the first response that did not fail and
\* issues no request after it; after the 6th failure it rejects with that
\* attempt's error without a further wait; and every call is settled in the
\* end
C25_Retry ==
  /\ []C25_Bounded
  /\ [][pc = "done" => requests' = requests /\ waits' = waits]_vars
  /\ (AICall ~> pc = "done")

\* a call has been rejected after six requests, the last of them answered
\* with a status that is not OK
C25_Witness ==
  /\ AICall /\ Rejected /\ KeyConfigured(args.apiKey)
  /\ requests = 6 /\ waits = delays /\ response.reached /\ ~response.ok

-----------------------------------------------------------------------------
(* C26 *)

\* row and cashflow agree on the fields the row takes from the weights
\* (date, amount) and on those it takes from the page's list (assetClass,
\* type, details, rawAmount; a raw amount of zero is shown as |amount|)
RowOf(row, cf) ==
  /\ row.date = cf.date /\ row.amount = cf.amount
  /\ row.assetClass = cf.assetClass /\ row.type = cf.type
  /\ row.details = cf.details
  /\ row.rawAmount = (IF cf.rawAmount = Zero THEN Abs(cf.amount) ELSE cf.rawAmount)

\* C26: every row of the Adjusted Cashflows table is the row of one input
\* cashflow: its assetClass, type, details and rawAmount belong to the
\* cashflow its date, amount and weight belong to
C26_RowsOfOneCashflow ==
  (Done("adjustedFlows") /\ ~ret.threw) =>
    \A i \in 1..Len(ret.value) :
      \E j \in 1..Len(args.cashflows) : RowOf(ret.value[i], args.cashflows[j])

\* the first cashflow lies before the period and the second inside it: the
\* one row of the table has the date and amount of the second and the
\* asset class, type and details of the first
C26_Mixed ==
  /\ Done("adjustedFlows") /\ ~ret.threw
  /\ Len(args.cashflows) = 2 /\ Len(ret.value) = 1
  /\ args.cashflows[1].date = DateAt(0) /\ args.cashflows[2].date = DateAt(8)
  /\ args.startDate = DateAt(4) /\ args.endDate = DateAt(16)
  /\ ret.value[1].date = DateAt(8) /\ ret.value[1].amount = Fin(-2)
  /\ ret.value[1].assetClass = "Equities" /\ ret.value[1].type = "INFLOW"
  /\ ret.value[1].details = "first" /\ ret.value[1].rawAmount = Fin(4)

-----------------------------------------------------------------------------
(* C27 *)

\* the sum of the fractions s[i].n / s[i].d, as a pair <<numerator,
\* denominator>> over the product of the denominators
RECURSIVE SumFractions(_)
SumFractions(s) ==
  IF s = <<>> THEN <<0, 1>>
  ELSE LET rest == SumFractions(Tail(s))
       IN <<s[1].n * rest[2] + rest[1] * s[1].d, s[1].d * rest[2]>>

ReturnedWeights == MapSeq(ret.value.assetResults, LAMBDA r : r.weight)

NoNegativeBeginning ==
  \A i \in 1..Len(args.assets) : ~(args.assets[i].beginningValue.n < 0)

\* C27: in every result computePortfolioReturns returns, the weights of the
\* assets are finite numbers that sum to 1, and each of them lies in [0, 1]
\* when no asset has a negative beginning value
C27_WeightsSumToOne ==
  (Done("computePortfolioReturns") /\ ~ret.threw) =>
    /\ \A i \in 1..Len(ReturnedWeights) : ReturnedWeights[i].k = "fin"
    /\ LET sum == SumFractions(ReturnedWeights) IN sum[1] = sum[2]
    /\ NoNegativeBeginning =>
         \A i \in 1..Len(ReturnedWeights) :
           /\ 0 <= ReturnedWeights[i].n
           /\ ReturnedWeights[i].n <= ReturnedWeights[i].d

\* a result for two assets of unequal positive beginning values: weights
\* 10/11 and 1/11
C27_Witness ==
  /\ Done("computePortfolioReturns") /\ ~ret.threw
  /\ Len(args.assets) = 2 /\ NoNegativeBeginning
  /\ ReturnedWeights[1] = Rat(10, 11) /\ ReturnedWeights[2] = Rat(1, 11)

\* a result with a negative beginning value: weights 2 and -1
C27_NegativeWeight ==
  /\ Done("computePortfolioReturns") /\ ~ret.threw
  /\ ~NoNegativeBeginning
  /\ ReturnedWeights[1] = Fin(2) /\ ReturnedWeights[2] = Fin(-1)

-----------------------------------------------------------------------------
(* C28 *)

\* some cashflow of the call is dated inside the period
SomeFlowInside ==
  /\ ValidDates(args.startDate, args.endDate)
  /\ \E i \in 1..Len(args.cashflows) :
       LET cf == args.cashflows[i]
       IN /\ cf.date.isDate /\ cf.date.time.k = "fin"
          /\ args.startDate.time.n <= cf.date.time.n
          /\ cf.date.time.n <= args.endDate.time.n

\* every asset has a beginning value greater than zero, resp. of EPS at least
AllBeginningsPositive ==
  \A i \in 1..Len(args.assets) : args.assets[i].beginningValue.n > 0

AllBeginningsStable ==
  \A i \in 1..Len(args.assets) : args.assets[i].beginningValue.n >= EPS

ReturnedContributions == MapSeq(ret.value.assetResults, LAMBDA r : r.contribution)

\* the contributions of the result are finite numbers that sum to its
\* portfolio return, which is (total ending - total beginning) / total
\* beginning, and the result lists no issue
ContributionsAddUp ==
  /\ \A i \in 1..Len(ReturnedContributions) : ReturnedContributions[i].k = "fin"
  /\ ret.value.portfolio.periodReturn.k = "fin"
  /\ LET sum == SumFractions(ReturnedContributions)
         r == ret.value.portfolio.periodReturn
     IN /\ sum[1] * r.d = r.n * sum[2]
        /\ r.n * TotalBeginning = (TotalEnding - TotalBeginning) * r.d
  /\ ret.value.issues = <<>>

\* the statement of C28 as it stands: beginning values greater than zero
C28_PositiveBeginnings ==
  (Done("computePortfolioReturns") /\ ~ret.threw
     /\ FiniteBeginnings /\ AllBeginningsPositive /\ ~SomeFlowInside) =>
    ContributionsAddUp

\* C28: when every asset has a beginning value of at least EPS (1e-12) and
\* no cashflow is dated inside the period, the contributions of a result
\* returned by computePortfolioReturns sum to portfolio.periodReturn and the
\* issues list is empty
C28_ContributionsSum ==
  (Done("computePortfolioReturns") /\ ~ret.threw
     /\ FiniteBeginnings /\ AllBeginningsStable /\ ~SomeFlowInside) =>
    ContributionsAddUp

\* a result for two assets with beginning values of EPS at least and two
\* cashflows, both dated after the period
C28_Witness ==
  /\ Done("computePortfolioReturns") /\ ~ret.threw
  /\ Len(args.assets) = 2 /\ FiniteBeginnings /\ AllBeginningsStable
  /\ Len(args.cashflows) = 2 /\ ~SomeFlowInside
  /\ ValidDates(args.startDate, args.endDate)
  /\ ret.value.portfolio.periodReturn # Zero

-----------------------------------------------------------------------------
(* C29 *)

\* C29: the mapping autoMapColumns returns is injective: no two target
\* fields have the same header
C29_Injective ==
  Done("autoMapColumns") =>
    \A t, u \in DOMAIN ret.value.mapping :
      t # u => ret.value.mapping[t] # ret.value.mapping[u]

\* the headers Value, Type, Asset Class under the cashflow aliases: the
\* date (by the fallback, "valuedate" includes "value") and the amount (by
\* the alias "value") are both read from the column Value, and nothing but
\* the optional details is missing
C29_ValueTwice ==
  /\ Done("autoMapColumns")
  /\ args.aliasMap = CASHFLOW_COLUMN_ALIASES
  /\ args.rawHeaders = <<HeaderChoices[1], HeaderChoices[2], HeaderChoices[3]>>
  /\ DOMAIN ret.value.mapping = {"transactionDate", "transactionType", "amount", "assetClass"}
  /\ ret.value.mapping["transactionDate"] = HeaderChoices[1]
  /\ ret.value.mapping["amount"] = HeaderChoices[1]
  /\ ret.value.missing = <<"details">>

\* under the asset aliases the mapping is injective for these header rows
C29_AssetsInjective ==
  (Done("autoMapColumns") /\ args.aliasMap = ASSET_COLUMN_ALIASES) =>
    \A t, u \in DOMAIN ret.value.mapping :
      t # u => ret.value.mapping[t] # ret.value.mapping[u]

-----------------------------------------------------------------------------
(* C30 *)

\* the inputs allow a computation (both dates set, an asset at least) and
\* computePortfolioReturns returns a result for them
Computed(store) ==
  /\ store.startDate.isDate /\ store.endDate.isDate /\ Len(store.assets) > 0
  /\ ~computePortfolioReturns(store.assets, store.cashflows,
                              store.startDate, store.endDate).threw

\* the result of the most recent successful computation among the inputs
\* h, oldest first; null if there is none
RECURSIVE LastSuccessful(_)
LastSuccessful(h) ==
  IF h = <<>> THEN NoValue
  ELSE LET last == h[Len(h)]
       IN IF Computed(last)
            THEN computePortfolioReturns(last.assets, last.cashflows,
                                         last.startDate, last.endDate).value
            ELSE LastSuccessful(SubSeq(h, 1, Len(h) - 1))

\* C30: on the Performance page the store's performanceResults is the
\* result of the most recent successful computation since the store was
\* created or reset, or null if there was none: an edit after which the
\* computation fails, a date is missing or there is no asset leaves it as
\* it was
C30_LastSuccessfulResult ==
  (fn = "PerformancePage") => performanceResults = LastSuccessful(edits)

\* after a successful computation the assets were edited so that the
\* computation fails: the store still holds the earlier result
C30_Witness ==
  /\ fn = "PerformancePage"
  /\ Len(edits) = 3
  /\ Computed(edits[2]) /\ ~Computed(edits[3])
  /\ ret # NoValue /\ ret.threw
  /\ performanceResults # NoValue
  /\ performanceResults = LastSuccessful(<<edits[2]>>)

====
